---- MODULE Spec2Model ----
(***************************************************************************)
(* Model of the claryfy backend: the bounded-concurrency gate and the      *)
(* batch runner of the HTTP server (src/http-server.js), the Canvas        *)
(* client's response interceptors (src/unnamed/part_001, client.ts) and    *)
(* the dashboard aggregation built on them.                                *)
(*                                                                         *)
(* JavaScript runs one job at a time: the code between two awaits is one   *)
(* atomic step.  Every action below is such a step.                        *)
(***************************************************************************)
EXTENDS Integers, Sequences, FiniteSets, TLC

\* ------------------------------------------------------------------ bounds
\* Longest item list handed to processWithConcurrency / processBatchWithRetry.
MaxItems == 3

\* PERFORMANCE_CONFIG (src/http-server.js:81-87), scaled down so that every
\* interleaving can be explored.  The source has MAX_CONCURRENT_REQUESTS = 12
\* COURSE_BATCH_SIZE = 10 and MAX_COURSES = 15; the scaled values keep
\* COURSE_BATCH_SIZE < MAX_CONCURRENT_REQUESTS <= MAX_COURSES <= MaxItems.
MAX_CONCURRENT_REQUESTS == 2
COURSE_BATCH_SIZE == 1
MAX_COURSES == 2

\* The number of courses getAllFilesOptimized keeps (8 in the source, below
\* the batch size), scaled likewise.
FILE_COURSES == 1

\* The number of courses the fallback of getAllAssignmentsOptimized and of
\* getAllAnnouncementsOptimized keeps (5 in the source, below MAX_COURSES),
\* scaled likewise.
FALLBACK_COURSES == 1

\* CanvasClient.maxConcurrentRequests (12 in the source), scaled likewise.
maxConcurrentRequests == 2

\* Activation slots, one per concurrent caller of the gate or of the batch
\* runner: the dashboard launches three runs at once, one per category.
\* Longest chain of pages the upstream serves for one list request.
MaxPages == 3

\* Longest script of upstream answers chosen for one logical request.
MaxScript == 3

\* Longest query, in phrases, handed to fallbackQueryProcessing, and to
\* processQuery with a language model in front.
MaxPhrases == 4
MaxModelPhrases == 2

\* Longest list of known courses of the user.
MaxCourses == 2

\* Most documents the vector store holds, and the largest result limit a
\* search request asks for.
MaxDocs == 3
MaxLimit == 2

\* Longest conversation context and longest list of retrieved items handed
\* to buildEnhancedContextPrompt.
MaxHistory == 5
MaxContext == 2

\* Most requests handed to one CanvasClient's queueRequest.
MaxRequests == 3

\* Most POST /api/chat requests on one conversation.
MaxPosts == 2

\* Most rows of the recordings table.
MaxRecordings == 1

\* The shortest transcript POST /api/recordings/process accepts.
MIN_TRANSCRIPT == 10

\* buildEnhancedContextPrompt keeps the last 4 messages of the context.
HISTORY_MESSAGES == 4

\* CanvasClient defaults (client.ts).
maxRetries == 3
retryDelay == 1000

Runs == {1, 2, 3}

\* The two callers of the specification of overlapping batch runs.
BatchRuns == {1, 2}

ItemIds == 1..MaxItems

\* ------------------------------------------------------------------ helpers
Range(s) == {s[k] : k \in 1..Len(s)}

Min(a, b) == IF a <= b THEN a ELSE b

RECURSIVE Without(_, _)
\* executing.splice(executing.indexOf(x), 1): drops the first x, if any
Without(s, x) ==
    IF s = <<>> THEN <<>>
    ELSE IF Head(s) = x THEN Tail(s)
    ELSE <<Head(s)>> \o Without(Tail(s), x)

\* ------------------------------------------------------------------ state
VARIABLES
    gate,   \* per activation: the locals of one processWithConcurrency call
    st,     \* per activation: the state of each item's processor promise
    batch,  \* per activation: the locals of one processBatchWithRetry call
    performanceMetrics,  \* the server's global counters
    req,    \* one logical request of the Canvas client and its upstream
    canvasClient,  \* the server's global client (the token it was built from)
    userToken,     \* the server's global userToken
    dash,   \* one GET /api/dashboard request
    rows,   \* per category and course: the fetch of the course's rows
    query,  \* one call of GeminiQueryService.processQuery
    prompt, \* one call of OpenAIRAGService.buildEnhancedContextPrompt
    search, \* one retrieval request against the vector store
    chat,   \* one call of OpenAIRAGService.handleChatMessage
    rec,    \* the recordings table, the audio storage, the local upload
            \* directory and the POST /api/recordings/process requests
    queue,  \* the request queue of one CanvasClient
    auth,   \* one POST /auth request
    sync,   \* one POST /api/weaviate/sync/canvas request
    reindex \* the messages table, the ChatHistory collection and the
            \* background jobs of the POST /api/chat requests

gateVars == <<gate, st>>
batchVars == <<batch, performanceMetrics>>
clientVars == <<req>>
dashVars == <<canvasClient, userToken, dash, rows>>
ragVars == <<query, prompt, search, chat>>
svcVars == <<rec, queue, auth, sync, reindex>>
vars == <<gate, st, batch, performanceMetrics, req, canvasClient, userToken,
          dash, rows, query, prompt, search, chat, rec, queue, auth, sync,
          reindex>>

\* A processor promise is "idle" (not started), "pending", "fulfilled" or
\* "rejected".
NoGate == [pc |-> "none", items |-> <<>>, limit |-> 0, next |-> 1,
           executing |-> <<>>, results |-> <<>>, race |-> "none", ret |-> <<>>]

\* ---------------------------------------------------- processWithConcurrency
\* Promise.race(executing) at the moment it is created.  A fulfilled promise
\* has removed itself from `executing`, so the array holds pending and
\* rejected promises only; an already rejected one rejects the race.
RaceOf(executing, s) ==
    IF \E k \in 1..Len(executing) : s[executing[k]] = "rejected"
    THEN "rejected" ELSE "pending"

\* The limit test with > for >=: one promise too many before the await.
AtLimit_OffByOne(len, maxConcurrency) == len > maxConcurrency

\* `if (executing.length >= maxConcurrency)`
AtLimit(len, maxConcurrency) == len >= maxConcurrency

RECURSIVE Loop(_, _)
\* The for-loop from the next item up to the next await (or the end of the
\* list): each iteration calls the processor, pushes the promise on results
\* and executing, and awaits the race when the limit is reached.
Loop(g, s) ==
    IF g.next > Len(g.items)
    THEN <<[g EXCEPT !.pc = "allSettled"], s>>
    ELSE LET it == g.items[g.next]
             g1 == [g EXCEPT !.next = @ + 1,
                             !.results = Append(@, it),
                             !.executing = Append(@, it)]
             s1 == [s EXCEPT ![it] = "pending"]
         IN  IF AtLimit(Len(g1.executing), g1.limit)
             THEN <<[g1 EXCEPT !.pc = "await",
                               !.race = RaceOf(g1.executing, s1)], s1>>
             ELSE Loop(g1, s1)

\* A fresh call: results = [], executing = [], then the loop.
NewGate(items, limit, s) ==
    Loop([NoGate EXCEPT !.items = items, !.limit = limit], s)

\* The processor promise of item `it` settles with outcome o.  The .then
\* callback (fulfilment only) removes the promise from executing; a pending
\* race over executing settles the same way.
SettleGate(g, it, o) ==
    LET inCall == it \in Range(g.executing)
        ex == IF o = "fulfilled" THEN Without(g.executing, it) ELSE g.executing
    IN  [g EXCEPT !.executing = ex,
                  !.race = IF g.pc = "await" /\ @ = "pending" /\ inCall
                           THEN o ELSE @]

\* Promise.allSettled(results): one outcome per promise, in the order of
\* the results array.
AllSettled(results, s) ==
    [k \in 1..Len(results) |-> [item |-> results[k], status |-> s[results[k]]]]

\* Number of processor invocations started and not yet settled.
InFlight(r) == Cardinality({i \in ItemIds : st[r][i] = "pending"})

\* ------------------------------------------------------------ gate actions
\* processWithConcurrency(items, processor, limit) is called.
processWithConcurrency(r) ==
    /\ gate[r].pc = "none"
    /\ \E n \in 0..MaxItems, limit \in 1..MaxItems :
         LET res == NewGate([k \in 1..n |-> k], limit, st[r])
         IN  /\ gate' = [gate EXCEPT ![r] = res[1]]
             /\ st' = [st EXCEPT ![r] = res[2]]
    /\ UNCHANGED <<batchVars, clientVars, ragVars, svcVars, dashVars>>

\* A processor promise settles (also one left behind by a call that
\* rejected: nothing cancels it).
Settle(r) ==
    /\ \E it \in ItemIds, o \in {"fulfilled", "rejected"} :
         /\ st[r][it] = "pending"
         /\ st' = [st EXCEPT ![r][it] = o]
         /\ gate' = [gate EXCEPT ![r] = SettleGate(@, it, o)]
    /\ UNCHANGED <<batchVars, clientVars, ragVars, svcVars, dashVars>>

\* `await Promise.race(executing)` returns: the loop goes on, or the
\* rejection of the race leaves the function.
Resume(r) ==
    /\ gate[r].pc = "await"
    /\ gate[r].race \in {"fulfilled", "rejected"}
    /\ IF gate[r].race = "fulfilled"
       THEN LET res == Loop([gate[r] EXCEPT !.race = "none"], st[r])
            IN  /\ gate' = [gate EXCEPT ![r] = res[1]]
                /\ st' = [st EXCEPT ![r] = res[2]]
       ELSE /\ gate' = [gate EXCEPT ![r].pc = "rejected"]
            /\ UNCHANGED st
    /\ UNCHANGED <<batchVars, clientVars, ragVars, svcVars, dashVars>>

\* `return Promise.allSettled(results)` resolves.
ReturnStep(r) ==
    /\ gate[r].pc = "allSettled"
    /\ \A k \in 1..Len(gate[r].results) : st[r][gate[r].results[k]] # "pending"
    /\ gate' = [gate EXCEPT ![r].pc = "returned",
                            ![r].ret = AllSettled(gate[r].results, st[r])]
    /\ UNCHANGED <<st, batchVars>>

Return(r) == ReturnStep(r) /\ UNCHANGED <<clientVars, ragVars, svcVars, dashVars>>

\* ------------------------------------------------------ processBatchWithRetry
\* canvasClient = null
Null == 0

NoBatch == [pc |-> "none", n |-> 0, batchSize |-> 1, b |-> 0,
            allResults |-> <<>>, waits |-> 0]

ZeroMetrics == [totalRequests |-> 0, successfulRequests |-> 0,
                failedRequests |-> 0]

\* Number of batches: one per step of `for (i = 0; i < items.length; i += batchSize)`.
NumBatches(n, batchSize) == (n + batchSize - 1) \div batchSize

\* items.slice(i, i + batchSize) for the b-th batch, i = (b - 1) * batchSize;
\* items are named by their position in the input.
BatchItems(n, batchSize, b) ==
    LET lo == (b - 1) * batchSize
        hi == Min(lo + batchSize, n)
    IN  [k \in 1..(hi - lo) |-> lo + k]

CountStatus(outcomes, status) ==
    Cardinality({k \in 1..Len(outcomes) : outcomes[k].status = status})

\* The three += of the try block, after a batch of `len` items came back
\* with batchResults.
UpdateMetrics(m, len, batchResults) ==
    [m EXCEPT !.totalRequests = @ + len,
              !.successfulRequests = @ + CountStatus(batchResults, "fulfilled"),
              !.failedRequests = @ + CountStatus(batchResults, "rejected")]

\* The catch block of a batch of `len` items.
CatchMetrics(m, len) ==
    [m EXCEPT !.failedRequests = @ + len]

\* What the catch block adds to allResults for the failed batch.
CatchResults(batchItems) == <<>>

\* `if (batches.indexOf(batch) < batches.length - 1)`: a pacing delay follows.
DelayFollows(b, nb) == b < nb

\* The body of `for (const batch of batches)` up to its first await: the
\* next batch enters the gate with the default limit, or, the batches being
\* used up, the function returns allResults.
NextBatchOf(bt, s) ==
    IF bt.b < NumBatches(bt.n, bt.batchSize)
    THEN LET res == NewGate(BatchItems(bt.n, bt.batchSize, bt.b + 1),
                            MAX_CONCURRENT_REQUESTS, s)
         IN  [b |-> [bt EXCEPT !.pc = "gate", !.b = @ + 1], g |-> res[1], s |-> res[2]]
    ELSE [b |-> [bt EXCEPT !.pc = "returned"], g |-> NoGate, s |-> s]

NextBatch(r, bt, s) ==
    LET nx == NextBatchOf(bt, s)
    IN  /\ batch' = [batch EXCEPT ![r] = nx.b]
        /\ gate' = [gate EXCEPT ![r] = nx.g]
        /\ st' = [st EXCEPT ![r] = nx.s]

\* processBatchWithRetry(items, processor, batchSize) is called.
processBatchWithRetry(r) ==
    /\ batch[r].pc = "none"
    /\ gate[r].pc = "none"
    /\ \E n \in 0..MaxItems, batchSize \in 1..MaxItems :
         NextBatch(r, [NoBatch EXCEPT !.n = n, !.batchSize = batchSize],
                   [i \in ItemIds |-> "idle"])
    /\ UNCHANGED <<performanceMetrics, clientVars, ragVars, svcVars, dashVars>>

\* `await processWithConcurrency(batch, processor)` returns batchResults:
\* they are pushed on allResults; the pacing delay follows every batch but
\* the last, and the metrics are updated after it.
BatchResultsStep(r) ==
    /\ batch[r].pc = "gate"
    /\ gate[r].pc = "returned"
    /\ LET bt == [batch[r] EXCEPT !.allResults = @ \o gate[r].ret]
       IN  IF DelayFollows(bt.b, NumBatches(bt.n, bt.batchSize))
           THEN /\ batch' = [batch EXCEPT ![r] = [bt EXCEPT !.pc = "delay",
                                                            !.waits = @ + 1]]
                /\ UNCHANGED <<gate, st, performanceMetrics>>
           ELSE /\ performanceMetrics' =
                     UpdateMetrics(performanceMetrics, Len(gate[r].items), gate[r].ret)
                /\ NextBatch(r, bt, st[r])

BatchResults(r) == BatchResultsStep(r) /\ UNCHANGED <<clientVars, ragVars, svcVars, dashVars>>

\* The pacing delay (REQUEST_DELAY) is over: metrics, then the next batch.
DelayDoneStep(r) ==
    /\ batch[r].pc = "delay"
    /\ performanceMetrics' =
         UpdateMetrics(performanceMetrics, Len(gate[r].items), gate[r].ret)
    /\ NextBatch(r, batch[r], st[r])

DelayDone(r) == DelayDoneStep(r) /\ UNCHANGED <<clientVars, ragVars, svcVars, dashVars>>

\* The gate call rejected: the catch block, then the next batch.
BatchCatch(r) ==
    /\ batch[r].pc = "gate"
    /\ gate[r].pc = "rejected"
    /\ performanceMetrics' = CatchMetrics(performanceMetrics, Len(gate[r].items))
    /\ NextBatch(r, [batch[r] EXCEPT !.allResults = @ \o CatchResults(gate[r].items)],
                 st[r])
    /\ UNCHANGED <<clientVars, ragVars, svcVars, dashVars>>

\* POST /logout drops the client and resets the counters.
Logout ==
    /\ canvasClient' = Null
    /\ userToken' = Null
    /\ performanceMetrics' = ZeroMetrics
    /\ UNCHANGED <<gate, st, batch, clientVars, ragVars, svcVars, dash, rows>>

\* --------------------------------------------------------------- CanvasClient
\* An upstream answer is its HTTP status; NoResponse stands for a failure
\* without response (error.response undefined).
NoResponse == 0
Statuses == {NoResponse, 200, 401, 404, 429, 500}

\* config.__retryCount before anything assigned it.
Undefined == -1

\* getNextPageUrl's null.
NoUrl == 0

RECURSIVE Pow2(_)
\* Math.pow(2, k)
Pow2(k) == IF k <= 0 THEN 1 ELSE 2 * Pow2(k - 1)

\* JavaScript's a < b for a number or undefined: undefined < b is false.
JsLess(a, b) == a # Undefined /\ a < b

\* JavaScript's a || 0.
JsOrZero(a) == IF a = Undefined THEN 0 ELSE a

\* The upstream: page k of a chain of n pages holds the rows of page k ...
PageData(k) == <<k>>

\* ... and carries a Link header naming the next page, but for the last
\* page, whose response either has a Link header without rel="next"
\* (lastLink = "other") or no Link header at all (lastLink = "absent").
LinkHeader(k, n, lastLink) ==
    IF k < n
    THEN [present |-> TRUE,
          links |-> <<[rel |-> "current", url |-> k], [rel |-> "next", url |-> k + 1],
                      [rel |-> "first", url |-> 1]>>]
    ELSE IF lastLink = "other"
    THEN [present |-> TRUE,
          links |-> <<[rel |-> "current", url |-> k], [rel |-> "first", url |-> 1]>>]
    ELSE [present |-> FALSE, links |-> <<>>]

\* Body of the error response with the given status.
ErrorBody(status) == [message |-> status]

\* getNextPageUrl(linkHeader): split on ',', take the first link holding
\* rel="next" and return its <url>, or null; linkHeader.split throws a
\* TypeError when the header is undefined.
getNextPageUrl(h) ==
    IF ~h.present THEN [threw |-> TRUE, url |-> NoUrl]
    ELSE LET nexts == {k \in 1..Len(h.links) : h.links[k].rel = "next"}
         IN  IF nexts = {} THEN [threw |-> FALSE, url |-> NoUrl]
             ELSE [threw |-> FALSE,
                   url |-> h.links[CHOOSE k \in nexts : \A j \in nexts : k <= j].url]

\* shouldRetry(error)
shouldRetry(status) ==
    IF status = NoResponse THEN TRUE
    ELSE status = 429 \/ status >= 500

NoResult == [kind |-> "none", data |-> <<>>, statusCode |-> 0,
             response |-> ErrorBody(0)]
Fulfilled(data) == [NoResult EXCEPT !.kind = "ok", !.data = data]
TypeError == [NoResult EXCEPT !.kind = "TypeError"]

\* The error transformation with the response body left out.
TransformError_NoBody(status) ==
    IF status # NoResponse
    THEN [NoResult EXCEPT !.kind = "CanvasAPIError", !.statusCode = status]
    ELSE [NoResult EXCEPT !.kind = "AxiosError"]

\* "Transform error": new CanvasAPIError(message, status, data) when there is
\* a response, else the error itself is rethrown.
TransformError(status) ==
    IF status # NoResponse
    THEN [NoResult EXCEPT !.kind = "CanvasAPIError", !.statusCode = status,
                          !.response = ErrorBody(status)]
    ELSE [NoResult EXCEPT !.kind = "AxiosError"]

NoRequest ==
    [pc |-> "idle", script |-> <<200>>, pages |-> 1, lastLink |-> "other",
     isArray |-> TRUE, page |-> 0, pagination |-> FALSE,
     retryCount |-> Undefined, allData |-> <<>>, attempts |-> 0,
     continuations |-> 0, delays |-> <<>>, log |-> <<>>, result |-> NoResult]

\* this.client.request(config): one more HTTP attempt goes out.
Issue(q, page, pagination, retryCount) ==
    [q EXCEPT !.pc = "http", !.page = page, !.pagination = pagination,
              !.retryCount = retryCount, !.attempts = @ + 1]

\* The logical call settles.
Finish(q, result) == [q EXCEPT !.pc = "done", !.result = result]

\* One turn of `while (nextUrl)`: a continuation request marked
\* _isPaginationRequest with a fresh config, or the end of the loop.
PaginationLoop(q, next) ==
    IF next.threw THEN Finish(q, TypeError)
    ELSE IF next.url # NoUrl
    THEN [Issue(q, next.url, TRUE, Undefined) EXCEPT !.continuations = @ + 1]
    ELSE Finish(q, Fulfilled(q.allData))

\* The response interceptor's success handler.  The response of the initial
\* request starts the pagination loop; the response of a continuation
\* request passes through and is consumed by the loop that awaits it.
OnFulfilled(q) ==
    LET data == PageData(q.page)
        h == LinkHeader(q.page, q.pages, q.lastLink)
    IN  IF ~q.pagination
        THEN IF q.isArray /\ h.present
             THEN PaginationLoop([q EXCEPT !.allData = data], getNextPageUrl(h))
             ELSE Finish(q, Fulfilled(data))
        ELSE PaginationLoop([q EXCEPT !.allData = @ \o data], getNextPageUrl(h))

\* The error handler swallowing the failure of a continuation request: the
\* pages collected so far are handed to the caller.
OnRejected_Partial(q, status) ==
    IF q.pagination THEN Finish(q, Fulfilled(q.allData))
    ELSE Finish(q, TransformError(status))

\* The response interceptor's error handler: retry after the backoff delay
\* with the same config, or transform the error; an error of a continuation
\* request leaves the pagination loop and fails the logical call.
OnRejected(q, status) ==
    IF shouldRetry(status) /\ JsLess(q.retryCount, maxRetries)
    THEN LET count == JsOrZero(q.retryCount) + 1
         IN  [Issue(q, q.page, q.pagination, count) EXCEPT
                 !.delays = Append(@, retryDelay * Pow2(count - 1))]
    ELSE Finish(q, TransformError(status))

\* The answer the upstream gives to the attempt in flight: the script is
\* followed; when it is used up its last answer repeats.
StatusAt(q) == q.script[Min(q.attempts, Len(q.script))]

Scripts == UNION {[1..len -> Statuses] : len \in 1..MaxScript}

\* A caller starts a logical request (this.client.get of a list endpoint).
Request ==
    /\ req.pc = "idle"
    /\ \E script \in Scripts, pages \in 1..MaxPages,
          lastLink \in {"other", "absent"}, isArray \in BOOLEAN :
         req' = Issue([NoRequest EXCEPT !.script = script, !.pages = pages,
                                        !.lastLink = lastLink, !.isArray = isArray],
                      1, FALSE, Undefined)
    /\ UNCHANGED <<gateVars, batchVars, dashVars, ragVars, svcVars>>

\* The upstream answers the attempt in flight and the interceptor runs.
Respond ==
    /\ req.pc = "http"
    /\ LET status == StatusAt(req)
           q == [req EXCEPT !.log = Append(@, status)]
       IN  req' = IF status = 200 THEN OnFulfilled(q) ELSE OnRejected(q, status)
    /\ UNCHANGED <<gateVars, batchVars, dashVars, ragVars, svcVars>>

\* ------------------------------------------------------------ /api/dashboard
\* The categories fetched by the dashboard, each one batch run.
Assignments == 1
Announcements == 2
Files == 3

\* No token in the query string.
NoToken == 0

\* Credentials a request may carry.
Tokens == {1}

\* attempt[c] is the block of category function c that is running or has
\* run last: "none" (not called, or returned [] for an empty list),
\* "primary" (the try block) or "fallback" (the catch block of the
\* assignments and announcements functions).  The catch block is entered
\* when something thrown leaves the try block: the processors catch their
\* own failures and processBatchWithRetry catches those of its batches, so
\* no step of the aggregation enters it.
\* fetchedWith holds, for every upstream request the aggregation has
\* started, the global client it was sent with and the global userToken at
\* that moment.
NoDash == [pc |-> "idle", token |-> NoToken, n |-> 0, status |-> 0,
           coursesProcessed |-> 0, lists |-> <<>>,
           attempt |-> [c \in {1, 2, 3} |-> "none"],
           fetchedWith |-> {}]

\* The record of an upstream request sent with the global client.
SentWith(client, token) == {<<client, token>>}

\* A files category that works on FILE_COURSES course slots whatever the
\* number of cards.
CategoryCourses_NoSlice(c, n) == IF c = Files THEN FILE_COURSES ELSE n

\* The courses a category works on: getAllFilesOptimized keeps the first
\* FILE_COURSES cards, the other two keep them all.
CategoryCourses(c, n) == IF c = Files THEN Min(FILE_COURSES, n) ELSE n

\* A category function up to its first await.  Assignments and
\* announcements return [] at once for an empty list; otherwise the batch
\* run starts with the default batch size.
StartCategory(c, n) ==
    IF c # Files /\ n = 0
    THEN [b |-> [NoBatch EXCEPT !.pc = "skipped"], g |-> NoGate,
          s |-> [i \in ItemIds |-> "idle"]]
    ELSE NextBatchOf([NoBatch EXCEPT !.n = CategoryCourses(c, n),
                                    !.batchSize = COURSE_BATCH_SIZE],
                     [i \in ItemIds |-> "idle"])

\* A processor that has just been started: with a client its upstream
\* request is in flight; without one (the global was nulled by a logout)
\* `canvasClient.listAssignments` throws inside the processor's try.
StartedRow == IF canvasClient = Null THEN "noclient" ELSE "inflight"

\* Some processor was started by the step, with a client.
AnyStarted(before, after) ==
    /\ canvasClient # Null
    /\ \E i \in ItemIds : before[i] = "idle" /\ after[i] = "pending"

\* The fetch state of the processors a step has started in category c.
Started(c, before, after, old) ==
    [i \in ItemIds |->
        IF before[i] = "idle" /\ after[i] = "pending" THEN StartedRow ELSE old[i]]

\* Upstream requests of the aggregation that are in flight.
DashInFlight ==
    (IF dash.pc \in {"auth", "cards"} THEN 1 ELSE 0)
    + Cardinality({ci \in Runs \X ItemIds : rows[ci[1]][ci[2]] = "inflight"})

\* A category that returns nothing as soon as one of its courses failed.
CategoryList_AllOrNothing(c) ==
    IF \E k \in 1..Len(batch[c].allResults) :
           rows[c][batch[c].allResults[k].item] # "rows"
    THEN <<>>
    ELSE [k \in 1..Len(batch[c].allResults) |-> batch[c].allResults[k].item]

\* The rows a category returns: those of the fulfilled outcomes, in the
\* order of allResults (by course).
CategoryList(c) ==
    SelectSeq([k \in 1..Len(batch[c].allResults) |-> batch[c].allResults[k].item],
              LAMBDA i : rows[c][i] = "rows")

\* GET /api/dashboard arrives, with or without token and domain.  With
\* credentials that are not those of the current client it authenticates
\* first; without a client it answers 401; else it fetches the cards.
Dashboard ==
    /\ dash.pc = "idle"
    /\ \E token \in Tokens \cup {NoToken} :
         dash' = IF token # NoToken /\ (canvasClient = Null \/ userToken # token)
                 THEN [NoDash EXCEPT !.pc = "auth", !.token = token]
                 ELSE IF canvasClient = Null
                 THEN [NoDash EXCEPT !.pc = "done", !.token = token, !.status = 401]
                 ELSE [NoDash EXCEPT !.pc = "cards", !.token = token,
                                     !.fetchedWith = SentWith(canvasClient,
                                                              userToken)]
    /\ UNCHANGED <<gateVars, batchVars, clientVars, ragVars, svcVars,
                   canvasClient, userToken, rows>>

\* testClient.healthCheck() answers: initializeClient on 'ok', else 401.
HealthChecked ==
    /\ dash.pc = "auth"
    /\ \E ok \in BOOLEAN :
         IF ok
         THEN /\ canvasClient' = dash.token
              /\ userToken' = dash.token
              /\ dash' = [dash EXCEPT !.pc = "cards",
                                      !.fetchedWith = SentWith(dash.token,
                                                               dash.token)]
         ELSE /\ dash' = [dash EXCEPT !.pc = "done", !.status = 401]
              /\ UNCHANGED <<canvasClient, userToken>>
    /\ UNCHANGED <<gateVars, batchVars, clientVars, ragVars, svcVars, rows>>

\* getDashboardCards() answers.  A failure ends in the handler's catch
\* (500); else the cards are cut to MAX_COURSES and the three category
\* functions are started together.
CardsFetched ==
    /\ dash.pc = "cards"
    /\ \E ok \in BOOLEAN, cards \in 0..(MAX_COURSES + 1) :
         IF ok
         THEN LET n == Min(cards, MAX_COURSES)
                  started == [c \in Runs |-> StartCategory(c, n)]
              IN  /\ dash' = [dash EXCEPT !.pc = "fanout", !.n = n,
                                           !.attempt = [c \in Runs |->
                                               IF started[c].b.pc = "skipped"
                                               THEN "none" ELSE "primary"],
                                           !.fetchedWith =
                                               IF \E c \in Runs :
                                                    AnyStarted(st[c], started[c].s)
                                               THEN @ \cup SentWith(canvasClient,
                                                                    userToken)
                                               ELSE @]
                  /\ batch' = [c \in Runs |-> started[c].b]
                  /\ gate' = [c \in Runs |-> started[c].g]
                  /\ st' = [c \in Runs |-> started[c].s]
                  /\ rows' = [c \in Runs |->
                                Started(c, st[c], started[c].s, rows[c])]
         ELSE /\ dash' = [dash EXCEPT !.pc = "done", !.status = 500]
              /\ UNCHANGED <<gateVars, batch, rows>>
    /\ UNCHANGED <<performanceMetrics, clientVars, ragVars, svcVars, canvasClient, userToken>>

\* The fetch of one course in one category ends and its processor
\* fulfils: with the rows, or with [] from the processor's catch.
ProcessorDone(c) ==
    /\ \E i \in ItemIds, v \in {"rows", "empty"} :
         /\ st[c][i] = "pending"
         /\ rows[c][i] = "inflight" \/ (rows[c][i] = "noclient" /\ v = "empty")
         /\ rows' = [rows EXCEPT ![c][i] = v]
         /\ st' = [st EXCEPT ![c][i] = "fulfilled"]
         /\ gate' = [gate EXCEPT ![c] = SettleGate(@, i, "fulfilled")]
    /\ UNCHANGED <<batchVars, clientVars, ragVars, svcVars, canvasClient, userToken, dash>>

\* A step of the batch run of category c inside the aggregation.
CategoryStep(c, step) ==
    /\ dash.pc = "fanout"
    /\ step
    /\ rows' = [rows EXCEPT ![c] = Started(c, st[c], st'[c], @)]
    /\ dash' = [dash EXCEPT !.fetchedWith =
                   IF AnyStarted(st[c], st'[c])
                   THEN @ \cup SentWith(canvasClient, userToken) ELSE @]
    /\ UNCHANGED <<clientVars, ragVars, svcVars, canvasClient, userToken>>

CategoryReturn(c) == CategoryStep(c, ReturnStep(c))

CategoryBatchResults(c) == CategoryStep(c, BatchResultsStep(c))

CategoryDelayDone(c) == CategoryStep(c, DelayDoneStep(c))

CategoryDone(c) == batch[c].pc \in {"returned", "skipped"}

\* Promise.all of the three categories resolves: the 200 payload.
DashRespond ==
    /\ dash.pc = "fanout"
    /\ \A c \in Runs : CategoryDone(c)
    /\ dash' = [dash EXCEPT !.pc = "done", !.status = 200,
                            !.coursesProcessed = dash.n,
                            !.lists = [c \in Runs |->
                                IF batch[c].pc = "skipped" THEN <<>>
                                ELSE CategoryList(c)]]
    /\ UNCHANGED <<gateVars, batchVars, clientVars, ragVars, svcVars,
                   canvasClient, userToken, rows>>

\* --------------------------------------------------------- GeminiQueryService
\* A query is the sequence of its words, userQuery.split(' '): the words
\* joined by single spaces.  The empty word alone is the empty string;
\* beside other words it is a doubled space.
\* The phrases the queries are built from, one or two words each.
Phrases ==
    {<<"">>, <<"assignments">>, <<"news">>, <<"syllabus">>, <<"class">>,
     <<"this", "week">>, <<"next", "week">>, <<"due">>,
     <<"CMSC422?">>, <<"Algorithms">>}

RECURSIVE Flatten(_)
\* The words of a sequence of phrases.
Flatten(ps) == IF ps = <<>> THEN <<>> ELSE Head(ps) \o Flatten(Tail(ps))

\* The known courses of the user, in the order of the stored list.
Course(k) ==
    IF k = 1 THEN [id |-> 1, name |-> "Algorithms", course_code |-> "CMSC451"]
    ELSE [id |-> k, name |-> "Machine Learning", course_code |-> "CMSC422"]

\* word.length
WordLength(w) ==
    CASE w = "" -> 0
      [] w \in {"due"} -> 3
      [] w \in {"news", "this", "week", "next"} -> 4
      [] w = "class" -> 5
      [] w \in {"syllabus", "CMSC422?"} -> 8
      [] w = "Algorithms" -> 10
      [] w = "assignments" -> 11

\* The one-word alternatives of the regular expressions that occur in a
\* word, letter case ignored (the /i flag).
Atoms(w) ==
    CASE w = "assignments" -> {"assignment"}
      [] w = "news" -> {"news"}
      [] w = "syllabus" -> {"syllabus"}
      [] w = "class" -> {"class"}
      [] w = "week" -> {"week"}
      [] w = "due" -> {"due"}
      [] OTHER -> {}

\* The course codes and names that occur in a word, letter case kept
\* (String.prototype.includes).
Parts(w) ==
    CASE w = "CMSC422?" -> {"CMSC422"}
      [] w = "Algorithms" -> {"Algorithms"}
      [] OTHER -> {}

\* regex.test(userQuery) for an alternation of one-word alternatives
\* (single) and two-word alternatives (pairs, the two words one space
\* apart); among the words above a two-word alternative occurs only as its
\* two words side by side.
Test(re, q) ==
    \/ \E k \in 1..Len(q) : re.single \cap Atoms(q[k]) # {}
    \/ \E k \in 1..(Len(q) - 1), pr \in re.pairs : q[k] = pr[1] /\ q[k + 1] = pr[2]

\* The regular expressions of fallbackQueryProcessing (ps\d+ matches none
\* of the words above).
AssignmentRe ==
    [single |-> {"assignment", "homework", "hw", "project", "quiz", "exam", "test"},
     pairs |-> {<<"problem", "set">>}]
AnnouncementRe == [single |-> {"announcement", "news", "update", "notice"}, pairs |-> {}]
FileRe == [single |-> {"file", "document", "pdf", "syllabus", "material"}, pairs |-> {}]
CourseRe == [single |-> {"course", "class", "taking", "enrolled"}, pairs |-> {}]
ThisWeekRe == [single |-> {"week"}, pairs |-> {<<"this", "week">>}]
NextWeekRe == [single |-> {}, pairs |-> {<<"next", "week">>}]
DueRe == [single |-> {"due", "deadline"}, pairs |-> {}]
UrgentRe == [single |-> {"due", "deadline", "urgent"}, pairs |-> {}]

\* userQuery.includes(s) for a string s without spaces.
Includes(q, s) == \E k \in 1..Len(q) : s \in Parts(q[k])

\* searchType: the first category whose words occur.
SearchTypeOf(q) ==
    IF Test(AssignmentRe, q) THEN "assignments"
    ELSE IF Test(AnnouncementRe, q) THEN "announcements"
    ELSE IF Test(FileRe, q) THEN "files"
    ELSE IF Test(CourseRe, q) THEN "courses"
    ELSE "general"

\* Time filter detection: the if / else-if chain.
TimeFilterOf(q) ==
    IF Test(ThisWeekRe, q) THEN "this_week"
    ELSE IF Test(NextWeekRe, q) THEN "next_week"
    ELSE IF Test(DueRe, q) THEN "this_week"
    ELSE "null"

\* Course detection that returns the name of the course found.
CourseFilterOf_Name(q, userCourses) ==
    LET hits == {k \in 1..Len(userCourses) :
                    \/ Includes(q, userCourses[k].course_code)
                    \/ Includes(q, userCourses[k].name)}
    IN  IF hits = {} THEN "null"
        ELSE userCourses[CHOOSE k \in hits : \A j \in hits : k <= j].name

\* Course detection that keeps looking after a course was found.
CourseFilterOf_NoBreak(q, userCourses) ==
    LET hits == {k \in 1..Len(userCourses) :
                    \/ Includes(q, userCourses[k].course_code)
                    \/ Includes(q, userCourses[k].name)}
    IN  IF hits = {} THEN "null"
        ELSE userCourses[CHOOSE k \in hits : \A j \in hits : k >= j].course_code

\* Course detection: the code of the first course of the list whose code
\* or name occurs in the query (the loop breaks there), or null.
CourseFilterOf(q, userCourses) ==
    LET hits == {k \in 1..Len(userCourses) :
                    \/ Includes(q, userCourses[k].course_code)
                    \/ Includes(q, userCourses[k].name)}
    IN  IF hits = {} THEN "null"
        ELSE userCourses[CHOOSE k \in hits : \A j \in hits : k <= j].course_code

\* fallbackQueryProcessing(userQuery, userCourses)
fallbackQueryProcessing(q, userCourses) ==
    [searchType |-> SearchTypeOf(q),
     courseFilter |-> CourseFilterOf(q, userCourses),
     timeFilter |-> TimeFilterOf(q),
     priority |-> IF Test(UrgentRe, q) THEN "due_soon" ELSE "null",
     keywords |-> SelectSeq(q, LAMBDA w : WordLength(w) > 2),
     specificItems |-> <<>>,
     intent |-> IF Test(AssignmentRe, q) THEN "find_assignments"
                ELSE IF Test(CourseRe, q) THEN "get_course_info"
                ELSE "general_question"]

\* What the language model may answer when its text holds parsable JSON:
\* the object is returned as it is.
ModelAnswers ==
    {[searchType |-> t, courseFilter |-> "CMSC422", timeFilter |-> "null",
      priority |-> "null", keywords |-> <<"PS5">>, specificItems |-> <<"PS5">>,
      intent |-> "find_assignments"] : t \in {"assignments", "homework"}}

\* How the language model behaves for one call: not configured
\* (geminiModel === null), generateContent or text() throws, the text
\* holds no {...}, the {...} does not parse, or it parses.
ModelBehaviours == {"unavailable", "throws", "no_json", "bad_json", "json"}

\* No result yet.
NoIntent == [searchType |-> "none", courseFilter |-> "null", timeFilter |-> "null",
             priority |-> "null", keywords |-> <<>>, specificItems |-> <<>>,
             intent |-> "none"]

NoQuery == [pc |-> "idle", userQuery |-> <<>>, userCourses |-> <<>>,
            model |-> "none", result |-> NoIntent]

Queries(maxPhrases) ==
    {Flatten(ps) : ps \in UNION {[1..len -> Phrases] : len \in 1..maxPhrases}}

CourseLists == {[k \in 1..n |-> Course(k)] : n \in 0..MaxCourses}

\* GeminiQueryService.fallbackQueryProcessing is called on its own.
FallbackQuery ==
    /\ query.pc = "idle"
    /\ \E q \in Queries(MaxPhrases), userCourses \in CourseLists :
         query' = [pc |-> "done", userQuery |-> q, userCourses |-> userCourses,
                   model |-> "none",
                   result |-> fallbackQueryProcessing(q, userCourses)]
    /\ UNCHANGED <<gateVars, batchVars, clientVars, dashVars, svcVars, prompt, search, chat>>

\* GeminiQueryService.processQuery(userQuery, userCourses) from the call to
\* its return, the language model behaving in one of its ways.
processQuery ==
    /\ query.pc = "idle"
    /\ \E q \in Queries(MaxModelPhrases), userCourses \in CourseLists,
          model \in ModelBehaviours, answer \in ModelAnswers :
         query' = [pc |-> "done", userQuery |-> q, userCourses |-> userCourses,
                   model |-> model,
                   result |-> IF model = "json" THEN answer
                              ELSE fallbackQueryProcessing(q, userCourses)]
    /\ UNCHANGED <<gateVars, batchVars, clientVars, dashVars, svcVars, prompt, search, chat>>

\* ------------------------------------------------ buildEnhancedContextPrompt
\* A message of the list sent to the generation call.  kind tells the part
\* of the prompt it is; ref is the position of a history message in the
\* conversation context; items are the labels of the retrieved items; course
\* and intent are the optional lines of the system prompt.
Msg(role, kind) ==
    [role |-> role, kind |-> kind, ref |-> 0, items |-> <<>>,
     course |-> FALSE, intent |-> "none"]

\* queryParams.intent.replace('_', ' '): the first underscore only.
ReplaceUnderscore(intent) ==
    CASE intent = "find_assignments" -> "find assignments"
      [] intent = "get_course_info" -> "get course_info"
      [] intent = "general_question" -> "general question"

\* item.type ? `[${item.type.toUpperCase()}]` : '[CONTENT]'
TypeLabel(type) ==
    CASE type = "assignment" -> "[ASSIGNMENT]"
      [] type = "file" -> "[FILE]"
      [] OTHER -> "[CONTENT]"

\* conversationContext.slice(-n), as positions of the context.
LastPositions(len, n) == IF len <= n THEN 1..len ELSE (len - n + 1)..len

\* The slice taken one message too long.
RecentPositions_OneMore(len) == LastPositions(len, HISTORY_MESSAGES + 1)

\* conversationContext.slice(-4)
RecentPositions(len) == LastPositions(len, HISTORY_MESSAGES)

RECURSIVE HistoryMessages(_, _, _)
\* The loop over recentMessages from position k on: messages of role user
\* or assistant are pushed, in order; the others are skipped.
HistoryMessages(list, k, recent) ==
    IF k > Len(list) THEN <<>>
    ELSE (IF k \in recent /\ list[k] \in {"user", "assistant"}
          THEN <<[Msg(list[k], "history") EXCEPT !.ref = k]>>
          ELSE <<>>)
         \o HistoryMessages(list, k + 1, recent)

\* buildEnhancedContextPrompt(userMessage, canvasContext,
\* conversationContext, courseInfo, queryParams, searchSummary).  The
\* conversation context is null (present = FALSE) or the list of the roles
\* of its messages, oldest first; canvasContext is the list of the types of
\* the retrieved items; courseInfo is null (FALSE) or an object;
\* queryParams is "null" or its intent.
buildEnhancedContextPrompt(canvasContext, conversationContext, courseInfo, queryParams) ==
    <<[Msg("system", "instructions") EXCEPT
          !.course = courseInfo,
          !.intent = IF queryParams # "null" THEN ReplaceUnderscore(queryParams)
                     ELSE "none"]>>
    \o (IF conversationContext.present /\ Len(conversationContext.list) > 0
        THEN HistoryMessages(conversationContext.list, 1,
                             RecentPositions(Len(conversationContext.list)))
        ELSE <<>>)
    \o (IF Len(canvasContext) > 0
        THEN <<[Msg("system", "context") EXCEPT
                  !.items = [k \in 1..Len(canvasContext) |-> TypeLabel(canvasContext[k])]]>>
        ELSE <<>>)
    \o <<Msg("user", "question")>>

NoPrompt == [pc |-> "idle", canvasContext |-> <<>>,
             conversationContext |-> [present |-> FALSE, list |-> <<>>],
             courseInfo |-> FALSE, queryParams |-> "null", messages |-> <<>>]

\* The conversation contexts: null, or up to MaxHistory messages of any role.
Contexts ==
    {[present |-> FALSE, list |-> <<>>]}
    \cup {[present |-> TRUE, list |-> l] :
            l \in UNION {[1..n -> {"user", "assistant", "system"}] : n \in 0..MaxHistory}}

\* The retrieved items: Canvas items carry a type, chat history items none.
ContextLists ==
    UNION {[1..n -> {"assignment", "file", ""}] : n \in 0..MaxContext}

\* Step 11 of handleChatMessage: the prompt is assembled.
BuildPrompt ==
    /\ prompt.pc = "idle"
    /\ \E canvasContext \in ContextLists, conversationContext \in Contexts,
          courseInfo \in BOOLEAN,
          queryParams \in {"null", "find_assignments", "get_course_info",
                           "general_question"} :
         prompt' = [pc |-> "done", canvasContext |-> canvasContext,
                    conversationContext |-> conversationContext,
                    courseInfo |-> courseInfo, queryParams |-> queryParams,
                    messages |-> buildEnhancedContextPrompt(canvasContext,
                                    conversationContext, courseInfo, queryParams)]
    /\ UNCHANGED <<gateVars, batchVars, clientVars, dashVars, svcVars, query, search, chat>>

\* ------------------------------------------------------------- vector search
\* The users and the courses of the documents and of the requests.
Users == {1, 2}
CourseIds == {1, 2}

\* The collections of the vector store.
Classes == {"CanvasContent", "ChatHistory", "RecordingSummary"}

\* A where filter: one Equal condition on a path, or the And of operands.
UserIs(userId) ==
    [operator |-> "Equal", path |-> "userId", value |-> userId, operands |-> <<>>]
CourseIs(courseId) ==
    [operator |-> "Equal", path |-> "courseId", value |-> courseId, operands |-> <<>>]

\* A search without where filter.
NoFilter == [operator |-> "None", path |-> "", value |-> 0, operands |-> <<>>]

\* The filter built by searchQueries.* and by searchCanvasContext /
\* searchChatHistory: the user condition, and-ed with the course condition
\* when courseId is truthy (null and 0 are not).
WhereFilter(userId, courseId) ==
    IF courseId # Null
    THEN [operator |-> "And", path |-> "", value |-> 0,
          operands |-> <<UserIs(userId), CourseIs(courseId)>>]
    ELSE UserIs(userId)

\* The store's evaluation of a filter on a document.
Matches(f, doc) ==
    LET Cond(c) == \/ c.path = "userId" /\ doc.userId = c.value
                   \/ c.path = "courseId" /\ doc.courseId = c.value
    IN  CASE f.operator = "None" -> TRUE
          [] f.operator = "Equal" -> Cond(f)
          [] f.operator = "And" -> \A k \in 1..Len(f.operands) : Cond(f.operands[k])

\* graphql.get().withClassName(class).withNearText(..).withWhere(f)
\* .withLimit(limit).do(): the result sets the store may return, at most
\* `limit` of the documents of the class that pass the filter.
Get(store, class, f, limit) ==
    {R \in SUBSET {d \in store : d.class = class /\ Matches(f, d)} :
        Cardinality(R) <= limit}

\* One search as issued: the collection, the filter sent and the documents
\* returned.
Searched(class, f, results) == [class |-> class, filter |-> f, results |-> results]

NoSearch == [store |-> {}, endpoint |-> "none", userId |-> 0, courseIds |-> <<>>,
             searches |-> <<>>]

\* A document is stored for a user (vectorizeAssignments / Announcements /
\* Files, vectorizeConversation, vectorizeRecording).
Vectorize ==
    /\ Cardinality(search.store) < MaxDocs
    /\ \E class \in Classes, userId \in Users, courseId \in CourseIds :
         search' = [search EXCEPT !.store =
                        @ \cup {[class |-> class, userId |-> userId,
                                 courseId |-> courseId]}]
    /\ UNCHANGED <<gateVars, batchVars, clientVars, dashVars, svcVars, query, prompt, chat>>

\* POST /api/weaviate/search/canvas: one filtered search of CanvasContent.
SearchCanvas ==
    /\ \E userId \in Users, courseId \in CourseIds \cup {Null}, limit \in 1..MaxLimit :
         LET f == WhereFilter(userId, courseId)
         IN  \E R \in Get(search.store, "CanvasContent", f, limit) :
                search' = [search EXCEPT !.endpoint = "search/canvas",
                              !.userId = userId, !.courseIds = <<courseId>>,
                              !.searches = <<Searched("CanvasContent", f, R)>>]
    /\ UNCHANGED <<gateVars, batchVars, clientVars, dashVars, svcVars, query, prompt, chat>>

\* POST /api/weaviate/search/all: searchAllContent searches the three
\* collections with the same filter and the limits 5, 3 and 2.
SearchAll ==
    /\ \E userId \in Users, courseId \in CourseIds \cup {Null} :
         LET f == WhereFilter(userId, courseId)
         IN  \E R1 \in Get(search.store, "CanvasContent", f, 5),
                R2 \in Get(search.store, "ChatHistory", f, 3),
                R3 \in Get(search.store, "RecordingSummary", f, 2) :
                search' = [search EXCEPT !.endpoint = "search/all",
                              !.userId = userId,
                              !.courseIds = <<courseId, courseId, courseId>>,
                              !.searches = <<Searched("CanvasContent", f, R1),
                                             Searched("ChatHistory", f, R2),
                                             Searched("RecordingSummary", f, R3)>>]
    /\ UNCHANGED <<gateVars, batchVars, clientVars, dashVars, svcVars, query, prompt, chat>>

\* Steps 7 and 8 of handleChatMessage: searchCanvasContext with the course
\* id picked by determineCourseId (the course the query names, else the
\* request's), then searchChatHistory with the request's course id.
ChatRetrieval ==
    /\ \E userId \in Users, courseId \in CourseIds \cup {Null},
          named \in CourseIds \cup {Null}, limit \in 1..MaxLimit :
         LET target == IF named # Null THEN named ELSE courseId
             f1 == WhereFilter(userId, target)
             f2 == WhereFilter(userId, courseId)
         IN  \E R1 \in Get(search.store, "CanvasContent", f1, limit),
                R2 \in Get(search.store, "ChatHistory", f2, 3) :
                search' = [search EXCEPT !.endpoint = "handleChatMessage",
                              !.userId = userId, !.courseIds = <<target, courseId>>,
                              !.searches = <<Searched("CanvasContent", f1, R1),
                                             Searched("ChatHistory", f2, R2)>>]
    /\ UNCHANGED <<gateVars, batchVars, clientVars, dashVars, svcVars, query, prompt, chat>>

\* POST /api/chat: qa.run(message).  The query agent is built on the
\* CanvasContent collection and is given the message only: its searches
\* carry no where filter.
ChatQueryAgent ==
    /\ \E userId \in Users, courseId \in CourseIds \cup {Null} :
         \E R \in Get(search.store, "CanvasContent", NoFilter, MaxDocs) :
            search' = [search EXCEPT !.endpoint = "chat",
                          !.userId = userId, !.courseIds = <<courseId>>,
                          !.searches = <<Searched("CanvasContent", NoFilter, R)>>]
    /\ UNCHANGED <<gateVars, batchVars, clientVars, dashVars, svcVars, query, prompt, chat>>

\* ---------------------------------------------------------- handleChatMessage
\* One call of OpenAIRAGService.handleChatMessage.  given: a conversationId
\* was passed; params: the shape of the object processQuery returned; conv:
\* the conversation in use; path: the try block ("primary") or the catch
\* block ("fallback"); threw: the step of the try block that threw; calls:
\* the ConversationService.addMessage calls that have returned, in order;
\* messages: the prompt sent to the generation call; stream: the generation
\* stream; timer: the setTimeout of saveAssistantResponse; result: what the
\* caller got; context: what getRecentContext returned; questions: the
\* number of messages of the prompt that hold the current question.
NoChat == [pc |-> "idle", given |-> FALSE, params |-> "none", conv |-> "none",
           path |-> "primary", threw |-> "none", calls |-> <<>>,
           messages |-> "none", stream |-> "none", timer |-> "none",
           result |-> "none", context |-> "none", questions |-> 0]

\* getRecentContext(userId, courseId, 6): the newest messages of the user,
\* oldest first, or [] after a database error.  The newest of them is the
\* user turn step 5 has just stored, if it was stored.
RecentContext(calls, ok) ==
    IF ~ok THEN "empty"
    ELSE IF calls # <<>> /\ calls[Len(calls)].outcome = "stored"
    THEN "ends with the question"
    ELSE "earlier turns"

\* The messages of buildEnhancedContextPrompt's list that hold the current
\* question: the last one, and the newest message of the context when it is
\* the stored user turn (it is within slice(-4) and of role user).
QuestionsInPrompt(context) ==
    IF context = "ends with the question" THEN 2 ELSE 1

\* An addMessage whose database error leaves the function.
AddMessageResult_Throws(conv, ok) ==
    IF conv = "temp" THEN "skipped"
    ELSE IF ok THEN "stored" ELSE "threw"

\* ConversationService.addMessage(conversationId, ..): nothing is saved for
\* a temporary conversation (or without database); else the message is
\* inserted, and an insert error is caught and logged.
AddMessageResult(conv, ok) ==
    IF conv = "temp" THEN "skipped"
    ELSE IF ok THEN "stored" ELSE "logged"

\* The addMessage call of `role` on the current path has returned.
Called(c, role, outcome) ==
    [c EXCEPT !.calls = Append(@, [role |-> role, path |-> c.path,
                                   outcome |-> outcome])]

\* Something thrown in the try block reaches the catch block, which runs up
\* to its first await: the conversation is the given one and addMessage is
\* called, or getOrCreateConversation(userId, 'Fallback Chat', courseId) is.
EnterFallback(c, step) ==
    [c EXCEPT !.path = "fallback", !.threw = step,
              !.conv = IF c.given THEN "given" ELSE "none",
              !.pc = IF c.given THEN "f_add" ELSE "f_conv"]

\* The generation call returned a stream: saveAssistantResponse sets its
\* timer and the function returns the stream and the conversation id.
ReturnStream(c) ==
    [c EXCEPT !.pc = "returned", !.stream = "open", !.timer = "armed",
              !.result = "returned"]

\* handleChatMessage(userId, message, courseId, .., conversationId) is
\* called: getUserCourses is awaited.
handleChatMessage ==
    /\ chat.pc = "idle"
    /\ \E given \in BOOLEAN :
         chat' = [NoChat EXCEPT !.pc = "courses", !.given = given]
    /\ UNCHANGED <<gateVars, batchVars, clientVars, dashVars, svcVars, query, prompt, search>>

\* Step 1 returns (getUserCourses catches its errors): processQuery is
\* awaited.
CoursesFetched ==
    /\ chat.pc = "courses"
    /\ chat' = [chat EXCEPT !.pc = "analysis"]
    /\ UNCHANGED <<gateVars, batchVars, clientVars, dashVars, svcVars, query, prompt, search>>

\* Step 2 returns queryParams: the fallback's object or the model's JSON,
\* which may lack specificItems (generateSearchSummary then throws on
\* .length) or hold an intent that is no string (the prompt assembly then
\* throws on .replace).  Steps 3 and 4 follow up to the next await.
QueryAnalysed ==
    /\ chat.pc = "analysis"
    /\ \E params \in {"ok", "no_items", "bad_intent"} :
         LET c == [chat EXCEPT !.params = params]
         IN  chat' = IF params = "no_items" THEN EnterFallback(c, "analysis")
                     ELSE IF c.given THEN [c EXCEPT !.conv = "given", !.pc = "add"]
                     ELSE [c EXCEPT !.pc = "conv"]
    /\ UNCHANGED <<gateVars, batchVars, clientVars, dashVars, svcVars, query, prompt, search>>

\* getOrCreateConversation returns a stored conversation, or a temporary
\* one after a database error (it never throws); step 5 is called.
ConversationResolved ==
    /\ chat.pc = "conv"
    /\ \E conv \in {"found", "temp"} :
         chat' = [chat EXCEPT !.conv = conv, !.pc = "add"]
    /\ UNCHANGED <<gateVars, batchVars, clientVars, dashVars, svcVars, query, prompt, search>>

\* Step 5 returns: the user turn; getRecentContext is awaited.
UserTurnAdded ==
    /\ chat.pc = "add"
    /\ \E ok \in BOOLEAN :
         LET res == AddMessageResult(chat.conv, ok)
         IN  chat' = IF res = "threw" THEN EnterFallback(chat, "addMessage")
                     ELSE [Called(chat, "user", res) EXCEPT !.pc = "context"]
    /\ UNCHANGED <<gateVars, batchVars, clientVars, dashVars, svcVars, query, prompt, search>>

\* Step 6 returns (getRecentContext catches its errors).
ContextFetched ==
    /\ chat.pc = "context"
    /\ \E ok \in BOOLEAN :
         chat' = [chat EXCEPT !.pc = "canvas",
                              !.context = RecentContext(chat.calls, ok)]
    /\ UNCHANGED <<gateVars, batchVars, clientVars, dashVars, svcVars, query, prompt, search>>

\* Step 7 returns (errors are caught inside the search and around it).
CanvasSearched ==
    /\ chat.pc = "canvas"
    /\ chat' = [chat EXCEPT !.pc = "history"]
    /\ UNCHANGED <<gateVars, batchVars, clientVars, dashVars, svcVars, query, prompt, search>>

\* Step 8 returns (likewise).
HistorySearched ==
    /\ chat.pc = "history"
    /\ chat' = [chat EXCEPT !.pc = "course"]
    /\ UNCHANGED <<gateVars, batchVars, clientVars, dashVars, svcVars, query, prompt, search>>

\* Step 9 returns (likewise); steps 10 and 11 assemble the prompt and step
\* 12 calls the generation.
CourseInfoFetched ==
    /\ chat.pc = "course"
    /\ chat' = IF chat.params = "bad_intent" THEN EnterFallback(chat, "prompt")
               ELSE [chat EXCEPT !.messages = "enhanced", !.pc = "generate",
                                 !.questions = QuestionsInPrompt(chat.context)]
    /\ UNCHANGED <<gateVars, batchVars, clientVars, dashVars, svcVars, query, prompt, search>>

\* Step 12 returns the stream or throws.
Generated ==
    /\ chat.pc = "generate"
    /\ \E ok \in BOOLEAN :
         chat' = IF ok THEN ReturnStream(chat)
                 ELSE EnterFallback(chat, "generation")
    /\ UNCHANGED <<gateVars, batchVars, clientVars, dashVars, svcVars, query, prompt, search>>

\* The fallback's getOrCreateConversation returns; addMessage is called.
FallbackConversationResolved ==
    /\ chat.pc = "f_conv"
    /\ \E conv \in {"found", "temp"} :
         chat' = [chat EXCEPT !.conv = conv, !.pc = "f_add"]
    /\ UNCHANGED <<gateVars, batchVars, clientVars, dashVars, svcVars, query, prompt, search>>

\* The fallback's addMessage returns: the generation is called with the
\* two fallback messages.
FallbackUserTurnAdded ==
    /\ chat.pc = "f_add"
    /\ \E ok \in BOOLEAN :
         LET res == AddMessageResult(chat.conv, ok)
         IN  chat' = IF res = "threw"
                     THEN [chat EXCEPT !.pc = "failed", !.result = "failed"]
                     ELSE [Called(chat, "user", res) EXCEPT
                              !.messages = "minimal", !.questions = 1,
                              !.pc = "f_generate"]
    /\ UNCHANGED <<gateVars, batchVars, clientVars, dashVars, svcVars, query, prompt, search>>

\* The fallback generation returns the stream, or throws and the call
\* fails with 'All AI response methods failed'.
FallbackGenerated ==
    /\ chat.pc = "f_generate"
    /\ \E ok \in BOOLEAN :
         chat' = IF ok THEN ReturnStream(chat)
                 ELSE [chat EXCEPT !.pc = "failed", !.result = "failed",
                                   !.threw = "fallback generation"]
    /\ UNCHANGED <<gateVars, batchVars, clientVars, dashVars, svcVars, query, prompt, search>>

\* The consumer has read the stream to its end.
StreamCompleted ==
    /\ chat.stream = "open"
    /\ chat' = [chat EXCEPT !.stream = "completed"]
    /\ UNCHANGED <<gateVars, batchVars, clientVars, dashVars, svcVars, query, prompt, search>>

\* The timer of saveAssistantResponse fires, one second after the
\* generation call returned: addMessage(.., 'assistant') is called.
TimerFired ==
    /\ chat.timer = "armed"
    /\ chat' = [chat EXCEPT !.timer = "saving"]
    /\ UNCHANGED <<gateVars, batchVars, clientVars, dashVars, svcVars, query, prompt, search>>

\* The assistant turn's addMessage returns; whatever it throws is caught
\* and logged by the timer callback.
AssistantTurnSaved ==
    /\ chat.timer = "saving"
    /\ \E ok \in BOOLEAN :
         LET res == AddMessageResult(chat.conv, ok)
         IN  chat' = [Called(chat, "assistant",
                             IF res = "threw" THEN "logged" ELSE res)
                         EXCEPT !.timer = "done"]
    /\ UNCHANGED <<gateVars, batchVars, clientVars, dashVars, svcVars, query, prompt, search>>

\* ------------------------------------------------- /api/recordings/process
\* The recordings of the table, the concurrent processing requests, and the
\* transcript lengths the transcription service answers with.
RecordingIds == 1..MaxRecordings
Jobs == {1, 2}
TranscriptLengths == {0, MIN_TRANSCRIPT - 1, MIN_TRANSCRIPT}

\* A row of the recordings table as createRecording inserts it.
NewRecording == [status |-> "processing", summary |-> "none",
                 transcription |-> FALSE]

NoJob == [pc |-> "idle", audioFile |-> FALSE, fields |-> FALSE,
          recordingId |-> 0, tempFileWithExt |-> FALSE, uploaded |-> FALSE,
          transcription |-> -1, persisted |-> FALSE, vectorized |-> "none",
          error |-> "none", deletes |-> 0, deletedAfterPersist |-> TRUE,
          status |-> 0]

NoRecordings ==
    [rows |-> [id \in RecordingIds |-> NewRecording],
     blobs |-> {},
     files |-> {},
     job |-> [j \in Jobs |-> NoJob]]

\* The local files of request j: the file multer wrote (audioFile.path) and
\* its copy with an extension (tempFileWithExt).
Upload(j) == <<j, "upload">>
WithExt(j) == <<j, "ext">>

\* fs.unlinkSync of the request's local files, as both handlers do it.
Unlinked(files, j, job) ==
    (files \ {Upload(j)}) \ (IF job.tempFileWithExt THEN {WithExt(j)} ELSE {})

\* updateRecording(recordingId, updates): the row after a successful update.
updateRecording(rws, id, updates) == [rws EXCEPT ![id] = updates]

\* The request arrives: multer stores the audio part, if any, in uploads/;
\* the handler answers 400 when the file or a required field is missing.
ProcessRecording(j) ==
    /\ rec.job[j].pc = "idle"
    /\ \E audio \in BOOLEAN, fields \in BOOLEAN, id \in RecordingIds :
          LET valid == audio /\ fields IN
          rec' = [rec EXCEPT
                    !.files = IF audio THEN @ \cup {Upload(j)} ELSE @,
                    !.job[j] = [@ EXCEPT !.audioFile = audio,
                                         !.fields = fields,
                                         !.recordingId = id,
                                         !.pc = IF valid THEN "upload"
                                                ELSE "done",
                                         !.status = IF valid THEN 0 ELSE 400]]
    /\ UNCHANGED <<gateVars, batchVars, clientVars, dashVars, ragVars, queue, auth, sync, reindex>>

\* The catch block of the processing steps is entered with the error.
Failing(job, e) == [job EXCEPT !.pc = "failed", !.error = e]

\* Step 1 ends: uploadAudioFile (upsert: false) answers; the handler copies
\* the local file to a name with an extension and starts the transcription.
AudioUploaded(j) ==
    /\ rec.job[j].pc = "upload"
    /\ LET job == rec.job[j]
           id == job.recordingId
       IN \E ok \in BOOLEAN :
            /\ ok => id \notin rec.blobs
            /\ rec' = IF ok
                      THEN [rec EXCEPT
                              !.blobs = @ \cup {id},
                              !.files = @ \cup {WithExt(j)},
                              !.job[j] = [job EXCEPT
                                            !.uploaded = TRUE,
                                            !.tempFileWithExt = TRUE,
                                            !.pc = "transcribe"]]
                      ELSE [rec EXCEPT !.job[j] = Failing(job, "upload")]
    /\ UNCHANGED <<gateVars, batchVars, clientVars, dashVars, ragVars, queue, auth, sync, reindex>>

\* Step 2 ends: transcribeAudio throws or answers a text of some length.
Transcribed(j) ==
    /\ rec.job[j].pc = "transcribe"
    /\ LET job == rec.job[j] IN
       \/ rec' = [rec EXCEPT !.job[j] = Failing(job, "transcribe")]
       \/ \E len \in TranscriptLengths :
            rec' = [rec EXCEPT !.job[j] =
                      IF len < MIN_TRANSCRIPT
                      THEN Failing([job EXCEPT !.transcription = len],
                                   "Transcription too short or empty")
                      ELSE [job EXCEPT !.transcription = len,
                                       !.pc = "summarise"]]
    /\ UNCHANGED <<gateVars, batchVars, clientVars, dashVars, ragVars, queue, auth, sync, reindex>>

\* Step 3 ends: generateLectureSummary answers or throws.
SummaryGenerated(j) ==
    /\ rec.job[j].pc = "summarise"
    /\ LET job == rec.job[j] IN
       \E ok \in BOOLEAN :
          rec' = [rec EXCEPT !.job[j] =
                    IF ok THEN [job EXCEPT !.pc = "persist"]
                    ELSE Failing(job, "summary")]
    /\ UNCHANGED <<gateVars, batchVars, clientVars, dashVars, ragVars, queue, auth, sync, reindex>>

\* Step 4 ends: updateRecording stores transcript, summary and 'completed',
\* or throws.
RecordingUpdated(j) ==
    /\ rec.job[j].pc = "persist"
    /\ LET job == rec.job[j]
           id == job.recordingId
       IN \E ok \in BOOLEAN :
            rec' = IF ok
                   THEN [rec EXCEPT
                           !.rows = updateRecording(@, id,
                                      [status |-> "completed",
                                       summary |-> "generated",
                                       transcription |-> TRUE]),
                           !.job[j] = [job EXCEPT !.persisted = TRUE,
                                                  !.pc = "vectorize"]]
                   ELSE [rec EXCEPT !.job[j] = Failing(job, "persist")]
    /\ UNCHANGED <<gateVars, batchVars, clientVars, dashVars, ragVars, queue, auth, sync, reindex>>

\* Step 5 ends: vectorizeRecording answers or throws (caught, logged); step 6
\* unlinks the local files and step 7 starts deleting the stored audio.
Vectorized(j) ==
    /\ rec.job[j].pc = "vectorize"
    /\ LET job == rec.job[j] IN
       \E ok \in BOOLEAN :
          rec' = [rec EXCEPT
                    !.files = Unlinked(@, j, job),
                    !.job[j] = [job EXCEPT
                                  !.vectorized = IF ok THEN "ok" ELSE "failed",
                                  !.pc = "delete"]]
    /\ UNCHANGED <<gateVars, batchVars, clientVars, dashVars, ragVars, queue, auth, sync, reindex>>

\* Step 7 ends: deleteAudioFile answers or throws (caught, logged); the
\* handler answers 200.
AudioDeleted(j) ==
    /\ rec.job[j].pc = "delete"
    /\ LET job == rec.job[j]
           id == job.recordingId
       IN \E ok \in BOOLEAN :
            rec' = [rec EXCEPT
                      !.blobs = IF ok THEN @ \ {id} ELSE @,
                      !.job[j] = [job EXCEPT
                                    !.deletes = IF ok THEN @ + 1 ELSE @,
                                    !.deletedAfterPersist =
                                        IF ok THEN @ /\ job.persisted ELSE @,
                                    !.pc = "done",
                                    !.status = 200]]
    /\ UNCHANGED <<gateVars, batchVars, clientVars, dashVars, ragVars, queue, auth, sync, reindex>>

\* The catch block: updateRecording stores 'failed' and the reason in the
\* summary field, or throws (caught, logged); the local files are unlinked,
\* the error is thrown again and the outer catch answers 500.
FailureRecorded(j) ==
    /\ rec.job[j].pc = "failed"
    /\ LET job == rec.job[j]
           id == job.recordingId
       IN \E ok \in BOOLEAN :
            rec' = [rec EXCEPT
                      !.rows = IF ok
                               THEN updateRecording(@, id,
                                      [status |-> "failed",
                                       summary |-> "Processing failed",
                                       transcription |-> @[id].transcription])
                               ELSE @,
                      !.files = Unlinked(@, j, job),
                      !.job[j] = [job EXCEPT !.pc = "done", !.status = 500]]
    /\ UNCHANGED <<gateVars, batchVars, clientVars, dashVars, ragVars, queue, auth, sync, reindex>>

\* ---------------------------------------------------------- queueRequest
RequestIds == 1..MaxRequests

\* requestQueue = [], activeRequests = 0; `submitted` and `started` record
\* the order of the queueRequest calls and of the request() calls.
NoQueue == [requestQueue |-> <<>>, activeRequests |-> 0,
            state |-> [id \in RequestIds |-> "none"],
            waited |-> [id \in RequestIds |-> FALSE],
            submitted |-> <<>>, started |-> <<>>]

\* The slot test with <= for <: one request too many is started.
HasSlot_OffByOne(activeRequests) == activeRequests <= maxConcurrentRequests

\* `this.activeRequests < this.maxConcurrentRequests`
HasSlot(activeRequests) == activeRequests < maxConcurrentRequests

RECURSIVE processRequestQueue(_)
\* The while loop: shift the oldest request, count it active and call it.
processRequestQueue(q) ==
    IF Len(q.requestQueue) > 0 /\ HasSlot(q.activeRequests)
    THEN LET request == Head(q.requestQueue)
         IN  processRequestQueue(
                [q EXCEPT !.requestQueue = Tail(@),
                          !.activeRequests = @ + 1,
                          !.state[request] = "running",
                          !.started = Append(@, request)])
    ELSE q

\* queueRequest(requestFn): push the wrapper, then processRequestQueue().
queueRequest(id) ==
    /\ queue.state[id] = "none"
    /\ LET pushed == [queue EXCEPT !.requestQueue = Append(@, id),
                                   !.state[id] = "queued",
                                   !.submitted = Append(@, id)]
           q == processRequestQueue(pushed)
       IN  queue' = [q EXCEPT !.waited[id] = q.state[id] = "queued"]
    /\ UNCHANGED <<gateVars, batchVars, clientVars, dashVars, ragVars, rec, auth, sync, reindex>>

\* A started request settles, resolved or rejected: the wrapper's promise
\* fulfils either way and its finally callback frees the slot and calls
\* processRequestQueue().
RequestSettled(id) ==
    /\ queue.state[id] = "running"
    /\ \E outcome \in {"resolved", "rejected"} :
         queue' = processRequestQueue(
                    [queue EXCEPT !.activeRequests = @ - 1,
                                  !.state[id] = outcome])
    /\ UNCHANGED <<gateVars, batchVars, clientVars, dashVars, ragVars, rec, auth, sync, reindex>>

\* ------------------------------------------- /auth, /api/weaviate/sync/canvas
\* Credentials a sync request may carry: those of another user than the
\* ones who authenticate.
SyncTokens == {Cardinality(Tokens) + 1}

NoAuth == [pc |-> "idle", token |-> NoToken, status |-> 0]

NoSync == [pc |-> "idle", token |-> NoToken, originalClient |-> Null,
           status |-> 0]

\* POST /auth arrives with token and domain (400 without): healthCheck
\* starts.
Auth ==
    /\ auth.pc = "idle"
    /\ \E token \in Tokens :
         auth' = [NoAuth EXCEPT !.pc = "health", !.token = token]
    /\ UNCHANGED <<gateVars, batchVars, clientVars, dashVars, ragVars,
                   rec, queue, sync, reindex>>

\* testClient.healthCheck() of /auth answers: initializeClient on 'ok'.
AuthChecked ==
    /\ auth.pc = "health"
    /\ \E ok \in BOOLEAN :
         IF ok
         THEN /\ canvasClient' = auth.token
              /\ userToken' = auth.token
              /\ auth' = [auth EXCEPT !.pc = "done", !.status = 200]
         ELSE /\ auth' = [auth EXCEPT !.pc = "done", !.status = 401]
              /\ UNCHANGED <<canvasClient, userToken>>
    /\ UNCHANGED <<gateVars, batchVars, clientVars, ragVars, dash, rows,
                   rec, queue, sync, reindex>>

\* POST /api/weaviate/sync/canvas arrives with userId, token and domain
\* (400 without): the global client is saved in originalClient and replaced
\* by tempClient, and the cards are requested.
SyncCanvas ==
    /\ sync.pc = "idle"
    /\ \E token \in SyncTokens :
         /\ sync' = [NoSync EXCEPT !.pc = "cards", !.token = token,
                                   !.originalClient = canvasClient]
         /\ canvasClient' = token
    /\ UNCHANGED <<gateVars, batchVars, clientVars, ragVars, userToken, dash,
                   rows, rec, queue, auth, reindex>>

\* The finally block: `canvasClient = originalClient`, then the answer.
Restored(status) ==
    /\ canvasClient' = sync.originalClient
    /\ sync' = [sync EXCEPT !.pc = "done", !.status = status]

\* tempClient.getDashboardCards() answers: the three category functions are
\* started, or the failure leaves through the finally block (500).
SyncCardsFetched ==
    /\ sync.pc = "cards"
    /\ \E ok \in BOOLEAN :
         IF ok
         THEN /\ sync' = [sync EXCEPT !.pc = "vectorize"]
              /\ UNCHANGED canvasClient
         ELSE Restored(500)
    /\ UNCHANGED <<gateVars, batchVars, clientVars, ragVars, userToken, dash,
                   rows, rec, queue, auth, reindex>>

\* The category functions have settled (Promise.allSettled) and
\* vectorizeAllCanvasData answers (200) or throws (500); the finally block
\* restores the global client either way.
SyncVectorized ==
    /\ sync.pc = "vectorize"
    /\ \E ok \in BOOLEAN : Restored(IF ok THEN 200 ELSE 500)
    /\ UNCHANGED <<gateVars, batchVars, clientVars, ragVars, userToken, dash,
                   rows, rec, queue, auth, reindex>>

\* ------------------------------------------ /api/chat (save and vectorize)
\* The POST /api/chat requests on one conversation; request p carries
\* message p and is answered with answer p.
Posts == 1..MaxPosts

\* messages: the rows of the messages table of the conversation, in
\* insertion order; chatHistory: the objects of the ChatHistory collection.
NoReindex == [messages |-> <<>>, chatHistory |-> <<>>,
              job |-> [p \in Posts |-> [pc |-> "idle", status |-> 0,
                                        error |-> "none"]]]

\* ConversationService.addMessage: the row is inserted, or the insert
\* error is caught and logged inside addMessage.
Inserted(messages, role, p, ok) ==
    IF ok THEN Append(messages, [role |-> role, post |-> p]) ELSE messages

\* The methods ConversationService (services/conversation.js) defines.
ConversationServiceMethods ==
    {"isAvailable", "createConversation", "getOrCreateConversation",
     "getConversations", "addMessage", "getMessages", "getRecentContext",
     "updateConversation", "deleteConversation", "generateTitle",
     "searchConversations"}

\* Calling ConversationService[name](..): a TypeError when the class has no
\* such method.
IsFunction(name) == name \in ConversationServiceMethods

\* POST /api/chat: qa.run(message) answers and the response is sent, then
\* the background job starts; or qa.run throws (500).
ChatPost(p) ==
    /\ reindex.job[p].pc = "idle"
    /\ \E ok \in BOOLEAN :
         reindex' = [reindex EXCEPT !.job[p] =
                       IF ok THEN [@ EXCEPT !.pc = "user", !.status = 200]
                       ELSE [@ EXCEPT !.pc = "done", !.status = 500]]
    /\ UNCHANGED <<gateVars, batchVars, clientVars, dashVars, ragVars,
                   rec, queue, auth, sync>>

\* `await ConversationService.addMessage(convId, message, 'user')` returns.
ChatUserSaved(p) ==
    /\ reindex.job[p].pc = "user"
    /\ \E ok \in BOOLEAN :
         reindex' = [reindex EXCEPT
                       !.messages = Inserted(@, "user", p, ok),
                       !.job[p].pc = "assistant"]
    /\ UNCHANGED <<gateVars, batchVars, clientVars, dashVars, ragVars,
                   rec, queue, auth, sync>>

\* `await ConversationService.addMessage(convId, answer, 'assistant')`
\* returns; the next statement calls
\* ConversationService.getConversationMessages, which throws at once when
\* it is not a function: the job's catch logs the error and the job ends
\* before vectorizeConversation.
ChatAssistantSaved(p) ==
    /\ reindex.job[p].pc = "assistant"
    /\ \E ok \in BOOLEAN :
         reindex' = [reindex EXCEPT
                       !.messages = Inserted(@, "assistant", p, ok),
                       !.job[p] =
                          IF IsFunction("getConversationMessages")
                          THEN [@ EXCEPT !.pc = "read"]
                          ELSE [@ EXCEPT !.pc = "done",
                                         !.error = "TypeError"]]
    /\ UNCHANGED <<gateVars, batchVars, clientVars, dashVars, ragVars,
                   rec, queue, auth, sync>>

\* ------------------------------------------------------------------ claims
\* C1: during processWithConcurrency(items, processor, limit) with
\* 1 <= limit <= N, the number of processor invocations started and not yet
\* settled never exceeds limit.
C1_InFlightWithinLimit ==
    (gate[1].pc # "none" /\ gate[1].limit <= Len(gate[1].items))
        => InFlight(1) <= gate[1].limit

\* The limit is reached a second time, after an await let a later item in.
C1_Witness ==
    /\ gate[1].pc = "await"
    /\ gate[1].limit >= 2
    /\ gate[1].limit < Len(gate[1].items)
    /\ gate[1].next > gate[1].limit + 1
    /\ InFlight(1) = gate[1].limit

\* C2: a finished call of processWithConcurrency has returned exactly N
\* outcomes, outcome i being the outcome of items[i], whatever the order of
\* completion and whether each processor fulfilled or rejected.
C2_EveryOutcomeInOrder ==
    gate[1].pc \in {"returned", "rejected"} =>
        /\ gate[1].pc = "returned"
        /\ Len(gate[1].ret) = Len(gate[1].items)
        /\ \A k \in 1..Len(gate[1].items) :
             gate[1].ret[k] = [item |-> gate[1].items[k],
                               status |-> st[1][gate[1].items[k]]]

\* C3: a rejecting processor never makes the call reject and never keeps the
\* remaining items from being started; it shows as a 'rejected' outcome at
\* its own position of the returned list.
C3_RejectionIsCaptured ==
    /\ gate[1].pc # "rejected"
    /\ \A k \in 1..Len(gate[1].items) :
         st[1][gate[1].items[k]] = "rejected" =>
            /\ gate[1].pc \in {"await", "allSettled", "returned"}
            /\ gate[1].pc = "returned" => gate[1].ret[k].status = "rejected"

\* C4: successfulRequests + failedRequests = totalRequests after any
\* sequence of batch runs and logout resets.
C4_MetricsAddUp ==
    performanceMetrics.successfulRequests + performanceMetrics.failedRequests
        = performanceMetrics.totalRequests

\* C5: a returned processBatchWithRetry holds exactly one outcome per input
\* item, in input order, also for the items of a batch that failed as a whole.
C5_OneOutcomePerItem ==
    \A r \in BatchRuns :
        batch[r].pc = "returned" =>
            /\ Len(batch[r].allResults) = batch[r].n
            /\ \A k \in 1..Len(batch[r].allResults) : batch[r].allResults[k].item = k

\* Statuses the retry policy retries: no response, 429, 5xx.
Retryable == {s \in Statuses : s = NoResponse \/ s = 429 \/ s >= 500}

\* 4xx statuses other than 429.
ClientErrors == {s \in Statuses : s >= 400 /\ s < 500 /\ s # 429}

RECURSIVE Pages(_)
\* The rows of pages 1..n, in page order.
Pages(n) == IF n = 0 THEN <<>> ELSE Pages(n - 1) \o PageData(n)

\* C6: against an upstream answering 429, 429, 200 the client makes three
\* attempts and the caller receives the data of the 200 response.
C6_SucceedsAfterTwo429 ==
    (req.pc = "done" /\ req.script = <<429, 429, 200>> /\ req.pages = 1) =>
        /\ req.attempts = 3
        /\ req.result = Fulfilled(PageData(1))

\* C7: a request that keeps failing with a retryable error is retried
\* maxRetries times, retry k after a wait of retryDelay * 2^(k-1), and the
\* failure is surfaced after that; never more than maxRetries retries.
C7_BackoffThenSurface ==
    /\ Len(req.delays) <= maxRetries
    /\ \A k \in 1..Len(req.delays) : req.delays[k] = retryDelay * Pow2(k - 1)
    /\ (req.pc = "done" /\ \A k \in 1..Len(req.script) : req.script[k] \in Retryable) =>
          /\ req.result.kind \in {"CanvasAPIError", "AxiosError"}
          /\ Len(req.delays) = maxRetries
          /\ req.attempts = maxRetries + 1

\* C8: a 4xx answer other than 429 is never followed by another attempt and
\* reaches the caller as a CanvasAPIError with that status and the raw body
\* of the response; a final failure without response is rethrown unwrapped.
C8_ClientErrorNotRetried ==
    /\ \A k \in 1..Len(req.log) :
         req.log[k] \in ClientErrors =>
            /\ k = Len(req.log)
            /\ req.pc = "done"
            /\ req.result = [NoResult EXCEPT !.kind = "CanvasAPIError",
                                             !.statusCode = req.log[k],
                                             !.response = ErrorBody(req.log[k])]
    /\ (req.log # <<>> /\ req.log[1] \in ClientErrors) => req.attempts = 1
    /\ (req.pc = "done" /\ req.log[Len(req.log)] = NoResponse) =>
          req.result = [NoResult EXCEPT !.kind = "AxiosError"]

\* A 404 answered to the first attempt has reached the caller.
C8_Witness ==
    /\ req.pc = "done"
    /\ req.log = <<404>>
    /\ req.result.kind = "CanvasAPIError"
    /\ req.result.statusCode = 404

\* C9: when every request succeeds, a list request over a chain of n pages
\* returns the rows of the n pages in page order after exactly n - 1
\* continuation requests, each page fetched once.
C9_AllPagesInOrder ==
    (req.pc = "done" /\ req.script = <<200>> /\ req.isArray) =>
        /\ req.result = Fulfilled(Pages(req.pages))
        /\ req.continuations = req.pages - 1
        /\ req.attempts = req.pages

\* C10: while a dashboard aggregation runs, the upstream requests in flight
\* never exceed min(batch-level limit, client queue limit).
C10_InFlightBounded ==
    DashInFlight <= Min(MAX_CONCURRENT_REQUESTS, maxConcurrentRequests)

\* Number of per-course fetches of the aggregation that ended as v.
RowsIn(v) == Cardinality({ci \in Runs \X ItemIds : rows[ci[1]][ci[2]] = v})

\* The courses of category c whose fetch returned rows, in course order.
CoursesWithRows(c) ==
    SelectSeq([k \in 1..CategoryCourses(c, dash.n) |-> k],
              LAMBDA i : rows[c][i] = "rows")

\* The aggregation got past the cards: the three category functions were
\* called (the files function always enters its batch run).
FannedOut == dash.attempt[Files] = "primary"

\* C11: when the announcements fetch throws for every course in the primary
\* attempt, getAllAnnouncementsOptimized runs its fallback over at most the
\* first FALLBACK_COURSES courses, and every announcement it returns comes
\* from one of those courses.
C11_FallbackAfterTotalFailure ==
    (/\ dash.pc = "done" /\ dash.status = 200 /\ dash.n > 0
     /\ \A i \in 1..dash.n : rows[Announcements][i] = "empty") =>
        /\ dash.attempt[Announcements] = "fallback"
        /\ Range(dash.lists[Announcements]) \subseteq 1..Min(FALLBACK_COURSES, dash.n)

\* C12: each category absorbs its own failures: a category whose fetches
\* all fail yields an empty list, the request completes with status 200 and
\* a payload holding what the other categories fetched, and while the
\* categories run none of them is stuck.
C12_CategoriesAbsorbFailures ==
    /\ dash.pc = "fanout" =>
          \A c \in Runs :
              \/ CategoryDone(c)
              \/ \E i \in ItemIds : st[c][i] = "pending"
              \/ gate[c].pc \in {"allSettled", "returned"}
              \/ batch[c].pc = "delay"
    /\ (FannedOut /\ dash.pc = "done") =>
          /\ dash.status = 200
          /\ \A c \in Runs :
                /\ dash.lists[c] = CoursesWithRows(c)
                /\ (\A i \in 1..CategoryCourses(c, dash.n) : rows[c][i] = "empty")
                      => dash.lists[c] = <<>>

\* One category failed for all its courses, another returned rows.
C12_Witness ==
    /\ dash.pc = "done" /\ dash.status = 200 /\ dash.n >= 2
    /\ \A i \in 1..dash.n : rows[Assignments][i] = "empty"
    /\ dash.lists[Assignments] = <<>>
    /\ Len(dash.lists[Announcements]) = dash.n
    /\ dash.lists[Files] # <<>>

\* C13: when the fetch of one course fails inside a category run, the rows
\* of the other courses are still returned, the failed course contributes
\* none, the aggregation answers 200, and the failure is counted in
\* failedRequests, not in successfulRequests (no logout in between).
C13_FailureIsRecorded ==
    (dash.pc = "done" /\ dash.status = 200 /\ canvasClient # Null) =>
        /\ \A c \in Runs : dash.lists[c] = CoursesWithRows(c)
        /\ performanceMetrics.failedRequests = RowsIn("empty")
        /\ performanceMetrics.successfulRequests = RowsIn("rows")

\* C14: with an empty course list the aggregation issues no per-course
\* request, returns three empty lists, reports coursesProcessed = 0 and
\* leaves performanceMetrics as they were.
C14_EmptyListNoRequests ==
    (FannedOut /\ dash.n = 0) =>
        /\ \A c \in Runs, i \in ItemIds : rows[c][i] = "none"
        /\ performanceMetrics = ZeroMetrics
        /\ dash.pc = "done" =>
              /\ dash.status = 200
              /\ dash.coursesProcessed = 0
              /\ \A c \in Runs : dash.lists[c] = <<>>

\* The aggregation answered for an empty course list.
C14_Witness ==
    /\ FannedOut /\ dash.n = 0
    /\ dash.pc = "done" /\ dash.status = 200

\* The result is a well-formed search intent for the known courses.
ValidIntent(r, userCourses) ==
    /\ r.searchType \in {"assignments", "announcements", "files", "courses", "general"}
    /\ \/ r.courseFilter = "null"
       \/ \E k \in 1..Len(userCourses) : r.courseFilter = userCourses[k].course_code
    /\ r.timeFilter \in {"this_week", "next_week", "this_month", "past_due", "null"}
    /\ r.priority \in {"due_soon", "overdue", "high_priority", "null"}
    /\ \A k \in 1..Len(r.keywords) : r.keywords[k] \in Range(query.userQuery)
    /\ r.specificItems = <<>>
    /\ r.intent \in {"find_assignments", "check_deadlines", "get_course_info",
                     "general_question"}

\* C15: fallbackQueryProcessing returns a well-formed search intent for
\* every query, the empty string included, and every list of known courses;
\* processQuery returns such a result whenever the language model is
\* unavailable, throws, or answers with text holding no parsable JSON.
C15_FallbackIsTotal ==
    (query.pc = "done" /\ query.model # "json") =>
        ValidIntent(query.result, query.userCourses)

\* processQuery fell back for the empty string after the model threw.
C15_Witness ==
    /\ query.pc = "done" /\ query.model = "throws"
    /\ query.userQuery = <<"">>
    /\ query.result.searchType = "general"
    /\ query.result.keywords = <<>>

\* The query holds an assignment word and the phrase "this week".
AssignmentsThisWeek(q) ==
    /\ Test(AssignmentRe, q)
    /\ \E k \in 1..(Len(q) - 1) : q[k] = "this" /\ q[k + 1] = "week"

\* C16: for every query that contains an assignment word, the phrase "this
\* week" and the code of a known course, the fallback returns category
\* assignments, time filter this_week and that course code as scope filter.
C16_AssignmentsThisWeekInCourse ==
    (query.pc = "done" /\ query.model # "json"
     /\ AssignmentsThisWeek(query.userQuery)) =>
        \A k \in 1..Len(query.userCourses) :
            Includes(query.userQuery, query.userCourses[k].course_code) =>
                /\ query.result.searchType = "assignments"
                /\ query.result.timeFilter = "this_week"
                /\ query.result.courseFilter = query.userCourses[k].course_code

\* C16 as amended: the scope filter is the code of the first known course,
\* in list order, whose code or name occurs in the query.
C16_FirstMentionedCourse ==
    (query.pc = "done" /\ query.model # "json"
     /\ AssignmentsThisWeek(query.userQuery)) =>
        \A k \in 1..Len(query.userCourses) :
            (/\ \/ Includes(query.userQuery, query.userCourses[k].course_code)
                \/ Includes(query.userQuery, query.userCourses[k].name)
             /\ \A j \in 1..(k - 1) :
                    /\ ~Includes(query.userQuery, query.userCourses[j].course_code)
                    /\ ~Includes(query.userQuery, query.userCourses[j].name)) =>
                /\ query.result.searchType = "assignments"
                /\ query.result.timeFilter = "this_week"
                /\ query.result.courseFilter = query.userCourses[k].course_code

\* "assignments due this week CMSC422?" with CMSC422 the second known course.
C16_Witness ==
    /\ query.pc = "done"
    /\ query.userQuery = <<"assignments", "due", "this", "week", "CMSC422?">>
    /\ Len(query.userCourses) = 2
    /\ query.result.courseFilter = "CMSC422"
    /\ query.result.timeFilter = "this_week"

\* The filter requires the given condition: it is the condition, or an And
\* with the condition among its operands.
Requires(f, cond) ==
    \/ f = cond
    \/ f.operator = "And" /\ cond \in Range(f.operands)

\* C17: every vector search issued to answer a chat or search request of
\* user U carries a filter requiring userId = U, and-ed with the courseId
\* condition when a course id is given, and returns no document stored for
\* another user.
C17_SearchesScopedToUser ==
    \A k \in 1..Len(search.searches) :
        /\ Requires(search.searches[k].filter, UserIs(search.userId))
        /\ search.courseIds[k] # Null =>
              Requires(search.searches[k].filter, CourseIs(search.courseIds[k]))
        /\ \A d \in search.searches[k].results : d.userId = search.userId

\* C18: the list built by buildEnhancedContextPrompt starts with one system
\* message, then holds at most 4 history messages, each of role user or
\* assistant, in chronological order and taken from the last 4 messages of
\* the history, then one system message with the retrieved context exactly
\* when the context is not empty, and ends with the current question; it
\* never has more than 7 messages.
C18_PromptShape ==
    prompt.pc = "done" =>
        LET m == prompt.messages
            list == prompt.conversationContext.list
            H == Cardinality({k \in 1..Len(m) : m[k].kind = "history"})
            C == IF prompt.canvasContext # <<>> THEN 1 ELSE 0
        IN  /\ Len(m) <= 7
            /\ Len(m) = 1 + H + C + 1
            /\ H <= 4
            /\ m[1].role = "system" /\ m[1].kind = "instructions"
            /\ \A k \in 2..(1 + H) :
                 /\ m[k].kind = "history"
                 /\ m[k].role \in {"user", "assistant"}
                 /\ m[k].ref \in 1..Len(list)
                 /\ m[k].ref > Len(list) - 4
                 /\ m[k].role = list[m[k].ref]
                 /\ k > 2 => m[k - 1].ref < m[k].ref
            /\ \A j \in 1..Len(list) :
                 (j > Len(list) - 4 /\ list[j] \in {"user", "assistant"}) =>
                     \E k \in 2..(1 + H) : m[k].ref = j
            /\ C = 1 => /\ m[2 + H].role = "system"
                        /\ m[2 + H].kind = "context"
                        /\ Len(m[2 + H].items) = Len(prompt.canvasContext)
            /\ m[Len(m)].role = "user" /\ m[Len(m)].kind = "question"

\* A history longer than 4 messages and a non-empty context: 7 messages,
\* the oldest message of the history left out.
C18_Witness ==
    /\ prompt.pc = "done"
    /\ Len(prompt.conversationContext.list) = 5
    /\ prompt.canvasContext # <<>>
    /\ Len(prompt.messages) = 7
    /\ prompt.messages[2].ref = 2

\* The turns stored in the conversation, in order.
Turns == SelectSeq(chat.calls, LAMBDA t : t.outcome = "stored")

\* C19: the assistant turn of a request is appended only after the
\* generation stream of that request has completed and after its user
\* turn, outside the critical path (the result was returned before); a
\* failed append is only logged: the stream and the result stay as they are.
C19_AssistantTurnAfterStream ==
    /\ \A k \in 1..Len(chat.calls) :
         chat.calls[k].role = "assistant" =>
            /\ chat.result = "returned"
            /\ chat.stream # "none"
            /\ \A j \in 1..Len(chat.calls) : chat.calls[j].role = "user" => j < k
    /\ \A k \in 1..Len(Turns) :
         Turns[k].role = "assistant" => chat.stream = "completed"

\* C20: when a step of the try block throws, the pipeline goes on with the
\* two-message prompt, appends the user turn on that path, and, the
\* fallback generation answering, returns a stream and a conversation id
\* with the assistant turn scheduled; the call fails only when the fallback
\* generation itself fails.
C20_FallbackStillAnswers ==
    /\ chat.result = "failed" =>
          /\ chat.path = "fallback"
          /\ chat.threw = "fallback generation"
    /\ (chat.path = "fallback" /\ chat.result = "returned") =>
          /\ chat.messages = "minimal"
          /\ chat.stream # "none"
          /\ chat.conv # "none"
          /\ chat.timer # "none"
          /\ \E k \in 1..Len(chat.calls) :
                chat.calls[k].role = "user" /\ chat.calls[k].path = "fallback"
    /\ chat.path = "fallback" =>
          chat.pc \in {"f_conv", "f_add", "f_generate", "returned", "failed"}

\* The prompt assembly threw after the user turn was stored, and the
\* fallback returned a stream.
C20_Witness ==
    /\ chat.threw = "prompt"
    /\ chat.result = "returned"
    /\ chat.messages = "minimal"
    /\ Len(chat.calls) >= 2

\* C21: a recording's status only moves processing -> completed or
\* processing -> failed: once a row is completed or failed no step of any
\* processing request changes its status again.
C21_StatusOneDirectional ==
    [][\A id \in RecordingIds :
          rec.rows[id].status # "processing"
              => rec'.rows[id].status = rec.rows[id].status]_vars

\* C22: a run whose transcript came back empty or too short ends with the
\* recording failed, a non-empty reason in its summary field, and the audio
\* blob uploaded for the run deleted exactly once.
C22_ShortTranscriptFailsAndCleans ==
    \A j \in Jobs :
        LET job == rec.job[j] IN
        (job.pc = "done" /\ job.error = "Transcription too short or empty")
            => /\ rec.rows[job.recordingId].status = "failed"
               /\ rec.rows[job.recordingId].summary # "none"
               /\ job.deletes = 1

\* C23: when a processing request has ended, whatever its outcome, the
\* uploaded local file and its copy with an extension are gone, and the
\* stored audio was deleted only after transcript and summary were persisted.
C23_LocalFilesDeleted ==
    \A j \in Jobs :
        LET job == rec.job[j] IN
        job.pc = "done"
            => /\ Upload(j) \notin rec.files
               /\ WithExt(j) \notin rec.files
               /\ job.deletedAfterPersist

\* C24: processBatchWithRetry runs its contiguous batches strictly one after
\* another: every worker in flight belongs to the current batch, and a
\* returned run over b batches has waited REQUEST_DELAY exactly b-1 times.
C24_BatchesInSequence ==
    \A r \in BatchRuns :
        LET bt == batch[r]
            nb == NumBatches(bt.n, bt.batchSize)
        IN  /\ \A i \in ItemIds :
                 st[r][i] = "pending"
                    => /\ bt.b >= 1
                       /\ i \in Range(BatchItems(bt.n, bt.batchSize, bt.b))
            /\ bt.pc = "returned" => bt.waits = (IF nb = 0 THEN 0 ELSE nb - 1)

\* s is a prefix of t.
IsPrefix(s, t) == Len(s) <= Len(t) /\ \A k \in 1..Len(s) : s[k] = t[k]

ContinuationFailed ==
    /\ req.pc = "done"
    /\ req.pagination
    /\ req.log # <<>>
    /\ req.log[Len(req.log)] # 200

\* C26: a paginated logical request is all-or-nothing: when a continuation
\* request finally fails the call fails with that request's error, and a
\* call that succeeds on a paginated list hands over every page of the chain.
C26_PaginationAllOrNothing ==
    /\ ContinuationFailed
         => req.result = TransformError(req.log[Len(req.log)])
    /\ (req.pc = "done" /\ req.result.kind = "ok" /\ req.continuations > 0)
         => req.result.data = Pages(req.pages)

\* C26 witness: two pages were collected, the request for the third failed
\* and the call failed with that error.
C26_Witness ==
    /\ ContinuationFailed
    /\ Len(req.allData) >= 2
    /\ req.result.kind = "CanvasAPIError"

\* No request is being served.
AllQuiet ==
    /\ dash.pc \in {"idle", "done"}
    /\ auth.pc \in {"idle", "done"}
    /\ sync.pc \in {"idle", "done"}

\* C27: the swap of the global client in the sync request is invisible: a
\* dashboard request sends every upstream request with the client of the
\* authenticated session (the one userToken names), and once all requests
\* have finished the global client is the one of the last completed
\* authentication, or null after a later logout.
C27_SwapInvisible ==
    /\ \A sent \in dash.fetchedWith : sent[1] = sent[2]
    /\ AllQuiet => canvasClient = userToken

\* Number of ChatHistory objects pairing message m with answer a.
Indexed(m, a) ==
    Cardinality({k \in 1..Len(reindex.chatHistory) :
                    /\ reindex.chatHistory[k].message = m
                    /\ reindex.chatHistory[k].response = a})

\* The exchange of request p was saved: both of its turns are in the table.
Saved(p) ==
    /\ \E k \in 1..Len(reindex.messages) :
         reindex.messages[k] = [role |-> "user", post |-> p]
    /\ \E k \in 1..Len(reindex.messages) :
         reindex.messages[k] = [role |-> "assistant", post |-> p]

\* C29: once the background jobs of the POST /api/chat requests on a
\* conversation have ended, ChatHistory holds every saved exchange exactly
\* once, and every object pairs a message with the answer to that message.
C29_EachExchangeIndexedOnce ==
    /\ \A m \in Posts, a \in Posts : m # a => Indexed(m, a) = 0
    /\ (\A p \in Posts : reindex.job[p].pc \in {"idle", "done"})
          => \A p \in Posts : Saved(p) => Indexed(p, p) = 1

\* The addMessage calls of one handleChatMessage call for the user turn.
UserTurns == {k \in 1..Len(chat.calls) : chat.calls[k].role = "user"}

\* C28: a call of handleChatMessage that returns, on the primary or on the
\* fallback path, has appended the user's message exactly once, and the
\* prompt it sent to the generation call holds the question exactly once.
C28_UserTurnOnce ==
    chat.result = "returned" =>
        /\ Cardinality(UserTurns) = 1
        /\ chat.questions = 1

\* The query holds the phrase made of the two words.
HasPhrase(q, first, second) ==
    \E k \in 1..(Len(q) - 1) : q[k] = first /\ q[k + 1] = second

\* C30: in the rule-based fallback a query containing "next week" gets time
\* filter next_week, a query containing "this week" gets this_week, and the
\* first matching category in the order assignment, announcement, file,
\* course decides searchType (general when none matches).
C30_TimeFilterMatchesPhrase ==
    (query.pc = "done" /\ query.model # "json") =>
        LET q == query.userQuery IN
        /\ (HasPhrase(q, "next", "week") /\ ~HasPhrase(q, "this", "week"))
              => query.result.timeFilter = "next_week"
        /\ (HasPhrase(q, "this", "week") /\ ~HasPhrase(q, "next", "week"))
              => query.result.timeFilter = "this_week"
        /\ query.result.searchType =
              (CASE Test(AssignmentRe, q) -> "assignments"
                 [] ~Test(AssignmentRe, q) /\ Test(AnnouncementRe, q)
                      -> "announcements"
                 [] ~Test(AssignmentRe, q) /\ ~Test(AnnouncementRe, q)
                    /\ Test(FileRe, q) -> "files"
                 [] ~Test(AssignmentRe, q) /\ ~Test(AnnouncementRe, q)
                    /\ ~Test(FileRe, q) /\ Test(CourseRe, q) -> "courses"
                 [] OTHER -> "general")

\* ------------------------------------------------------------ specifications
Init ==
    /\ gate = [r \in Runs |-> NoGate]
    /\ st = [r \in Runs |-> [i \in ItemIds |-> "idle"]]
    /\ batch = [r \in Runs |-> NoBatch]
    /\ performanceMetrics = ZeroMetrics
    /\ req = NoRequest
    /\ canvasClient = Null
    /\ userToken = Null
    /\ dash = NoDash
    /\ rows = [c \in Runs |-> [i \in ItemIds |-> "none"]]
    /\ query = NoQuery
    /\ prompt = NoPrompt
    /\ search = NoSearch
    /\ chat = NoChat
    /\ rec = NoRecordings
    /\ queue = NoQueue
    /\ auth = NoAuth
    /\ sync = NoSync
    /\ reindex = NoReindex

NextGate ==
    \/ processWithConcurrency(1)
    \/ Settle(1)
    \/ Resume(1)
    \/ Return(1)

\* One call of processWithConcurrency with any items, limit and processor.
SpecGate == Init /\ [][NextGate]_vars

NextBatchRuns ==
    \/ \E r \in BatchRuns :
         \/ processBatchWithRetry(r)
         \/ Settle(r)
         \/ Resume(r)
         \/ Return(r)
         \/ BatchResults(r)
         \/ DelayDone(r)
         \/ BatchCatch(r)
    \/ Logout

\* Two processBatchWithRetry runs with any items, batch size and processor,
\* one after the other or overlapping, and logouts at any moment.
SpecBatch == Init /\ [][NextBatchRuns]_vars

NextClient ==
    \/ Request
    \/ Respond

\* One logical request of the Canvas client against a scripted upstream.
SpecClient == Init /\ [][NextClient]_vars

NextDash ==
    \/ Dashboard
    \/ HealthChecked
    \/ CardsFetched
    \/ \E c \in Runs :
         \/ ProcessorDone(c)
         \/ CategoryReturn(c)
         \/ CategoryBatchResults(c)
         \/ CategoryDelayDone(c)
    \/ DashRespond
    \/ Logout

\* One dashboard request, and logouts at any moment.
SpecDash == Init /\ [][NextDash]_vars

NextQuery ==
    \/ FallbackQuery
    \/ processQuery

\* One call of the query analyzer, with or without the language model.
SpecQuery == Init /\ [][NextQuery]_vars

NextSearch ==
    \/ Vectorize
    \/ SearchCanvas
    \/ SearchAll
    \/ ChatRetrieval
    \/ ChatQueryAgent

\* Documents being stored and retrieval requests of any user, in any order.
SpecSearch == Init /\ [][NextSearch]_vars

NextPrompt ==
    \/ BuildPrompt

\* One call of buildEnhancedContextPrompt with any context and history.
SpecPrompt == Init /\ [][NextPrompt]_vars

NextChat ==
    \/ handleChatMessage
    \/ CoursesFetched
    \/ QueryAnalysed
    \/ ConversationResolved
    \/ UserTurnAdded
    \/ ContextFetched
    \/ CanvasSearched
    \/ HistorySearched
    \/ CourseInfoFetched
    \/ Generated
    \/ FallbackConversationResolved
    \/ FallbackUserTurnAdded
    \/ FallbackGenerated
    \/ StreamCompleted
    \/ TimerFired
    \/ AssistantTurnSaved

\* One call of handleChatMessage, its stream and its timer.
SpecChat == Init /\ [][NextChat]_vars

NextRecordings ==
    \E j \in Jobs :
        \/ ProcessRecording(j)
        \/ AudioUploaded(j)
        \/ Transcribed(j)
        \/ SummaryGenerated(j)
        \/ RecordingUpdated(j)
        \/ Vectorized(j)
        \/ AudioDeleted(j)
        \/ FailureRecorded(j)

SpecRecordings == Init /\ [][NextRecordings]_vars

NextQueue ==
    \E id \in RequestIds :
        \/ queueRequest(id)
        \/ RequestSettled(id)

SpecQueue == Init /\ [][NextQueue]_vars

\* Each started request eventually settles.
SpecQueueLive ==
    SpecQueue /\ \A id \in RequestIds : WF_vars(RequestSettled(id))

\* The requests that write the global client, interleaved with a dashboard
\* request followed up to the start of its fan-out (its later steps are
\* those of SpecDash).
NextSync ==
    \/ Auth
    \/ AuthChecked
    \/ Logout
    \/ SyncCanvas
    \/ SyncCardsFetched
    \/ SyncVectorized
    \/ Dashboard
    \/ HealthChecked
    \/ CardsFetched

SpecSync == Init /\ [][NextSync]_vars

NextReindex ==
    \E p \in Posts :
        \/ ChatPost(p)
        \/ ChatUserSaved(p)
        \/ ChatAssistantSaved(p)

SpecReindex == Init /\ [][NextReindex]_vars

====
